---- MODULE Spec2Model ----
(***************************************************************************)
(* go-battop: the time-series chart engine (internal/ui/charts.go and the  *)
(* ChartData buffer of internal/ui/view.go).                               *)
(*                                                                         *)
(* Numbers.  The code computes with float64.  The model computes with      *)
(* exact fixed-point numbers: an integer n stands for n / Scale, so that   *)
(* 0.001 (the flat-range epsilon), 0.5 (the flat-range widening) and the   *)
(* 10% padding of a range are all exact integers for the sample values the *)
(* model draws (multiples of 10 units).  Quotients that the code truncates *)
(* with int(...) are truncated toward zero here as well (GoDiv).           *)
(*                                                                         *)
(* Text.  A Go string is a sequence of tokens: one token per character,    *)
(* one token per tview style tag ("[gray]", "[-]", ...) and the token NL   *)
(* for "\n".  A run-time panic of a string operation (negative             *)
(* strings.Repeat count, slice bound out of range) is the text PanicText,  *)
(* which every concatenation propagates.                                   *)
(***************************************************************************)
EXTENDS Integers, Sequences, FiniteSets, TLC

VARIABLES
    cs,     \* the ChartSet: [charts, width, height], charts in AddChart order
    now,    \* the last value time.Now() returned (seconds)
    hist,   \* per chart, every sample ever appended: <<[v, t], ...>> (history)
    ret,    \* what the most recent call returned: [op, out]
    proc    \* the application around the charts: per goroutine its position inside
            \* View.Update (SpecRace), the battery manager and the progress of Run
            \* (SpecTick), <<>> where only the chart engine is called

vars == <<cs, now, hist, ret, proc>>

\* the variables no chart operation touches
envVars == <<proc>>

----------------------------------------------------------------------------
(* Fixed-point numbers                                                     *)

\* units per 1.0
Scale == 20 * 1000

\* the literal 0.001 of calculateBounds
FlatEpsilon == Scale \div 1000

\* the literal 0.5 of calculateBounds
FlatWidening == Scale \div 2

Abs(n) == IF n < 0 THEN -n ELSE n

Min2(a, b) == IF a < b THEN a ELSE b

Max2(a, b) == IF a > b THEN a ELSE b

\* Go's integer division and int(float) conversion: truncation toward zero
GoDiv(a, b) == IF (a >= 0) = (b > 0) THEN Abs(a) \div Abs(b) ELSE -(Abs(a) \div Abs(b))

----------------------------------------------------------------------------
(* Text                                                                    *)

NL == "\n"

\* the one-rune tokens U+2500, U+2502, U+2524, U+2514 and U+00B7
BoxHorizontal == "BoxHorizontal"

BoxVertical == "BoxVertical"

BoxTeeLeft == "BoxTeeLeft"

BoxBottomLeft == "BoxBottomLeft"

MiddleDot == "MiddleDot"

PanicText == <<"!panic">>

IsPanic(t) == t = PanicText

\* strings.Builder.WriteString / string concatenation
Cat(a, b) == IF IsPanic(a) \/ IsPanic(b) THEN PanicText ELSE a \o b

Cat3(a, b, c) == Cat(Cat(a, b), c)

Cat4(a, b, c, d) == Cat(Cat3(a, b, c), d)

\* strings.Repeat: panics on a negative count
\* (a sequence built by a function constructor is concatenated with <<>>, here
\* and below, so that TLC holds it as a tuple before EXCEPT or = acts on it)
Repeat(tok, n) == IF n < 0 THEN PanicText ELSE [i \in 1..n |-> tok] \o <<>>

\* the characters that UTF-8 encodes in two bytes (every other token is one
\* byte where a byte length is taken), and a byte that is no character
TwoByteRunes == {"EAcute"}

InvalidByte == "InvalidByte"

\* len(s): the length of s in bytes
ByteLen(s) == Len(s) + Cardinality({i \in 1..Len(s) : s[i] \in TwoByteRunes})

\* s[:hi]: the first hi bytes of s; panics unless 0 <= hi <= len(s).  A bound
\* inside a two-byte character leaves the first byte of it
GoSliceTo(s, hi) ==
    IF hi < 0 \/ hi > ByteLen(s) THEN PanicText
    ELSE LET whole == CHOOSE k \in 0..Len(s) :
                         /\ ByteLen(SubSeq(s, 1, k)) <= hi
                         /\ \A j \in (k + 1)..Len(s) : ByteLen(SubSeq(s, 1, j)) > hi
         IN IF ByteLen(SubSeq(s, 1, whole)) = hi THEN SubSeq(s, 1, whole)
            ELSE Append(SubSeq(s, 1, whole), InvalidByte)

\* fmt.Sprintf("%8s", s): left-padded with spaces to 8, never truncated
PadLeft8(s) == IF Len(s) >= 8 THEN s ELSE [i \in 1..(8 - Len(s)) |-> " "] \o s

\* the tview tags fmt.Sprintf("[%s]", color) and fmt.Sprintf("[%s:b]", color)
ColorTag(color) ==
    CASE color = "yellow" -> "[yellow]"
      [] color = "green" -> "[green]"
      [] color = "cyan" -> "[cyan]"
      [] OTHER -> "[white]"

BoldTag(color) ==
    CASE color = "yellow" -> "[yellow:b]"
      [] color = "green" -> "[green:b]"
      [] color = "cyan" -> "[cyan:b]"
      [] OTHER -> "[white:b]"


\* strings.Split(t, "\n"): the lines of t.  Line k lies between the (k-1)-th
\* and the k-th newline of t
SplitLines(t) ==
    LET nl == {i \in 1..Len(t) : t[i] = NL}
        pos(k) == IF k = 0 THEN 0
                  ELSE IF k > Cardinality(nl) THEN Len(t) + 1
                  ELSE CHOOSE p \in nl : Cardinality({q \in nl : q < p}) = k - 1
    IN [k \in 1..(Cardinality(nl) + 1) |-> SubSeq(t, pos(k - 1) + 1, pos(k) - 1)] \o <<>>

----------------------------------------------------------------------------
(* ChartData (view.go)                                                     *)

NewChartData(maxSize) == [timestamps |-> <<>>, values |-> <<>>, maxSize |-> maxSize]

\* ChartData.Add evicting the newest sample instead of the oldest
ChartDataAddEvictNewest(cd, value, t) ==
    LET ts == Append(cd.timestamps, t)
        vs == Append(cd.values, value)
    IN IF Len(vs) > cd.maxSize
       THEN [cd EXCEPT !.timestamps = SubSeq(ts, 1, Len(ts) - 1),
                       !.values = SubSeq(vs, 1, Len(vs) - 1)]
       ELSE [cd EXCEPT !.timestamps = ts, !.values = vs]

\* ChartData.Add with time.Now() = t, run to completion
ChartDataAdd(cd, value, t) ==
    LET ts == Append(cd.timestamps, t)
        vs == Append(cd.values, value)
    IN IF Len(vs) > cd.maxSize
       THEN [cd EXCEPT !.timestamps = Tail(ts), !.values = Tail(vs)]
       ELSE [cd EXCEPT !.timestamps = ts, !.values = vs]

----------------------------------------------------------------------------
(* Chart (charts.go)                                                       *)

ChartHeightReserve == 4

YAxisLabelWidth == 11

MinChartHeight == 3

NewChart(title, maxDataPoints, unit, color) ==
    [title |-> title, data |-> NewChartData(maxDataPoints), width |-> 0, height |-> 0,
     minValue |-> 0, maxValue |-> 0, autoScale |-> TRUE, unit |-> unit, color |-> color]

ChartSetSize(c, width, height) == [c EXCEPT !.width = width, !.height = height]

ChartSetScale(c, min, max) == [c EXCEPT !.minValue = min, !.maxValue = max, !.autoScale = FALSE]

ChartAddValue(c, value, t) == [c EXCEPT !.data = ChartDataAdd(c.data, value, t)]

\* the smallest and the largest element of a non-empty sequence: the result of
\* the scan `for _, v := range values` of calculateBounds
SeqMin(s) == CHOOSE v \in {s[i] : i \in 1..Len(s)} : \A i \in 1..Len(s) : v <= s[i]

SeqMax(s) == CHOOSE v \in {s[i] : i \in 1..Len(s)} : \A i \in 1..Len(s) : v >= s[i]

\* calculateBounds whose scan stops one sample short of the newest
calculateBoundsSkipNewest(c) ==
    IF ~c.autoScale THEN <<c.minValue, c.maxValue>>
    ELSE IF Len(c.data.values) = 0 THEN <<0, Scale>>
    ELSE LET scanned == IF Len(c.data.values) = 1 THEN c.data.values
                        ELSE SubSeq(c.data.values, 1, Len(c.data.values) - 1)
             min == SeqMin(scanned)
             max == SeqMax(scanned)
             range == max - min
         IN IF range < FlatEpsilon
            THEN <<min - FlatWidening, max + FlatWidening>>
            ELSE LET padding == GoDiv(range, 10)
                 IN <<min - padding, max + padding>>

\* calculateBounds without the artificial range for values too close
calculateBoundsNoWidening(c) ==
    IF ~c.autoScale THEN <<c.minValue, c.maxValue>>
    ELSE IF Len(c.data.values) = 0 THEN <<0, Scale>>
    ELSE LET min == SeqMin(c.data.values)
             max == SeqMax(c.data.values)
             padding == GoDiv(max - min, 10)
         IN <<min - padding, max + padding>>

\* calculateBounds: <<min, max>>
calculateBounds(c) ==
    IF ~c.autoScale THEN <<c.minValue, c.maxValue>>
    ELSE IF Len(c.data.values) = 0 THEN <<0, Scale>>
    ELSE LET min == SeqMin(c.data.values)
             max == SeqMax(c.data.values)
             range == max - min
         IN IF range < FlatEpsilon
            THEN <<min - FlatWidening, max + FlatWidening>>
            ELSE LET padding == GoDiv(range, 10)
                 IN <<min - padding, max + padding>>

\* calculateChartHeight that reserves no row for the title, the axis and the labels
calculateChartHeightNoReserve(c) ==
    IF c.height < MinChartHeight THEN MinChartHeight ELSE c.height

calculateChartHeight(c) ==
    LET chartHeight == c.height - ChartHeightReserve
    IN IF chartHeight < MinChartHeight THEN MinChartHeight ELSE chartHeight

calculateEffectiveChartWidth(c) == c.width - YAxisLabelWidth

\* valueToY without the two clamping tests
valueToYUnclamped(value, min, max, height) ==
    IF max <= min THEN GoDiv(height, 2)
    ELSE GoDiv((height - 1) * (max - value), max - min)

\* valueToY: int(float64(height-1) * (1 - (value-min)/(max-min))), clamped
valueToY(value, min, max, height) ==
    IF max <= min THEN GoDiv(height, 2)
    ELSE LET y == GoDiv((height - 1) * (max - value), max - min)
         IN IF y < 0 THEN 0 ELSE IF y >= height THEN height - 1 ELSE y

\* calculateVisibleDataRange that never slides: the window starts at the oldest sample
calculateVisibleDataRangeFromOldest(c, chartWidth) == <<0, Len(c.data.values)>>

\* calculateVisibleDataRange: <<startIdx, endIdx>>, 0-based, endIdx exclusive
calculateVisibleDataRange(c, chartWidth) ==
    LET dataPoints == Len(c.data.values)
    IN <<IF dataPoints > chartWidth THEN dataPoints - chartWidth ELSE 0, dataPoints>>

----------------------------------------------------------------------------
(* Number and time formatting                                              *)

DigitChar(d) == <<"0", "1", "2", "3", "4", "5", "6", "7", "8", "9">>[d + 1]

RECURSIVE Digits(_)
\* the decimal digits of n >= 0
Digits(n) == IF n < 10 THEN <<DigitChar(n)>> ELSE Append(Digits(n \div 10), DigitChar(n % 10))

RECURSIVE Pow10(_)
Pow10(d) == IF d = 0 THEN 1 ELSE 10 * Pow10(d - 1)

\* the digits of n >= 0, zero-padded on the left to d places
DigitsPadded(n, d) ==
    LET ds == Digits(n) IN IF Len(ds) >= d THEN ds ELSE [i \in 1..(d - Len(ds)) |-> "0"] \o ds

\* num/den rounded to the nearest integer, ties away from zero
RoundHalfUp(num, den) == (2 * num + den) \div (2 * den)

\* num/den (num >= 0, den > 0) rounded to the nearest integer, ties to even,
\* as strconv rounds the exact value of a float64
RoundHalfEven(num, den) ==
    LET q == num \div den
        r == num % den
    IN IF 2 * r < den THEN q
       ELSE IF 2 * r > den THEN q + 1
       ELSE IF q % 2 = 0 THEN q ELSE q + 1

\* fmt.Sprintf("%.<d>f", num/den)
FormatFixed(num, den, d) ==
    LET r == RoundHalfEven(Abs(num) * Pow10(d), den)
        sign == IF num < 0 THEN <<"-">> ELSE <<>>
        frac == IF d = 0 THEN <<>> ELSE <<".">> \o DigitsPadded(r % Pow10(d), d)
    IN sign \o Digits(r \div Pow10(d)) \o frac

\* formatValue of the number num/den (den > 0)
formatValue(c, num, den) ==
    LET absValue == Abs(num)
        decimals == IF absValue >= 1000 * den THEN 0
                    ELSE IF absValue >= 10 * den THEN 1
                    ELSE IF absValue >= den THEN 2
                    ELSE 3
    IN FormatFixed(num, den, decimals) \o c.unit

\* time.Time.Format("15:04:05"); a time is a count of seconds
FormatClock(t) ==
    LET s == t % 86400
    IN DigitsPadded(s \div 3600, 2) \o <<":">> \o DigitsPadded((s % 3600) \div 60, 2)
       \o <<":">> \o DigitsPadded(s % 60, 2)

\* formatChartDuration of d seconds
formatChartDuration(d) ==
    IF d < 60 THEN Digits(d) \o <<"s">>
    ELSE IF d < 3600 THEN Digits(d \div 60) \o <<"m">>
    ELSE Digits(d \div 3600) \o <<"h">> \o Digits((d \div 60) % 60) \o <<"m">>

----------------------------------------------------------------------------
(* Chart.Render                                                            *)

InitializingText ==
    <<" ", "[gray]", "I", "n", "i", "t", "i", "a", "l", "i", "z", "i", "n", "g",
      ".", ".", ".", "[-]">>

WaitingText ==
    <<" ", " ", " ", "W", "a", "i", "t", "i", "n", "g", " ", "f", "o", "r", " ",
      "d", "a", "t", "a", ".", ".", ".", "[-]">>

\* prepareTitleString
prepareTitleString(c) ==
    LET titleStr == <<" ">> \o c.title \o <<" ">>
    IN IF c.width < ByteLen(titleStr)
       THEN Cat(GoSliceTo(c.title, c.width - 2), <<" ">>)
       ELSE titleStr

\* calculateTitlePadding: <<leftPad, rightPad>>
calculateTitlePadding(c, titleStr) ==
    LET totalPadding == c.width - ByteLen(titleStr)
    IN IF totalPadding <= 0 THEN <<0, 0>>
       ELSE <<GoDiv(totalPadding, 2), totalPadding - GoDiv(totalPadding, 2)>>

\* renderTitle: the text written to the builder
renderTitle(c) ==
    LET titleStr == prepareTitleString(c)
    IN IF IsPanic(titleStr) THEN PanicText
       ELSE LET pad == calculateTitlePadding(c, titleStr)
            IN Cat4(IF pad[1] > 0 THEN Repeat(BoxHorizontal, pad[1]) ELSE <<>>,
                    <<BoldTag(c.color)>> \o titleStr \o <<"[-]">>,
                    IF pad[2] > 0 THEN Repeat(BoxHorizontal, pad[2]) ELSE <<>>,
                    <<NL>>)

\* calculateYValue: the number <<num, den>>
calculateYValue(row, totalRows, min, max) ==
    IF totalRows <= 1 THEN <<max, Scale>>
    ELSE <<max * (totalRows - 1) - row * (max - min), Scale * (totalRows - 1)>>

PanicGrid == <<PanicText>>

\* initializeEmptyGrid: height rows of width blanks (strings.Repeat panics on width < 0)
initializeEmptyGrid(height, width) ==
    IF height > 0 /\ width < 0 THEN PanicGrid
    ELSE [i \in 1..height |-> Repeat(" ", width)] \o <<>>

\* getPlotChar without the current-value case
getPlotCharNoCurrent(c, dataIdx, y, height, min, max) ==
    LET n == Len(c.data.values)
    IN IF dataIdx > 0 /\ dataIdx < n - 1
       THEN LET prevY == valueToY(c.data.values[dataIdx], min, max, height)
                nextY == valueToY(c.data.values[dataIdx + 2], min, max, height)
            IN IF y < prevY /\ y < nextY THEN "/"
               ELSE IF y > prevY /\ y > nextY THEN "\\"
               ELSE "o"
       ELSE "o"

\* getPlotChar
getPlotChar(c, dataIdx, y, height, min, max) ==
    LET n == Len(c.data.values)
    IN IF dataIdx = n - 1 THEN "*"
       ELSE IF dataIdx > 0 /\ dataIdx < n - 1
       THEN LET prevY == valueToY(c.data.values[dataIdx], min, max, height)
                nextY == valueToY(c.data.values[dataIdx + 2], min, max, height)
            IN IF y < prevY /\ y < nextY THEN "/"
               ELSE IF y > prevY /\ y > nextY THEN "\\"
               ELSE "o"
       ELSE "o"

\* setGridPoint marking every sample but the newest with the plain glyph
setGridPointPlain(c, grid, x, y, dataIdx, height, min, max) ==
    IF x < Len(grid[y + 1])
    THEN [grid EXCEPT ![y + 1][x + 1] =
             IF dataIdx = Len(c.data.values) - 1 THEN "*" ELSE "o"]
    ELSE grid

\* setGridPoint
setGridPoint(c, grid, x, y, dataIdx, height, min, max) ==
    IF x < Len(grid[y + 1])
    THEN [grid EXCEPT ![y + 1][x + 1] = getPlotChar(c, dataIdx, y, height, min, max)]
    ELSE grid

\* drawVerticalLine that also fills the row of the earlier sample
drawVerticalLineFromEarlier(grid, x, y1, y2, width, height) ==
    IF x >= width \/ x < 0 THEN grid
    ELSE LET start == Min2(y1, y2)
             end == Max2(y1, y2)
         IN [r \in 1..Len(grid) |->
               LET y == r - 1
               IN IF y >= start /\ y <= end /\ y >= 0 /\ y < height /\ y # y2
                     /\ x < Len(grid[r]) /\ grid[r][x + 1] = " "
                  THEN [grid[r] EXCEPT ![x + 1] = BoxVertical]
                  ELSE grid[r]] \o <<>>

\* drawVerticalLine
drawVerticalLine(grid, x, y1, y2, width, height) ==
    IF x >= width \/ x < 0 THEN grid
    ELSE LET start == Min2(y1, y2)
             end == Max2(y1, y2)
         IN [r \in 1..Len(grid) |->
               LET y == r - 1
               IN IF y >= start /\ y <= end /\ y >= 0 /\ y < height /\ y # y1 /\ y # y2
                     /\ x < Len(grid[r]) /\ grid[r][x + 1] = " "
                  THEN [grid[r] EXCEPT ![x + 1] = BoxVertical]
                  ELSE grid[r]] \o <<>>

\* plotSinglePoint
plotSinglePoint(c, grid, dataIdx, x, min, max, height, chartWidth, startIdx) ==
    LET y == valueToY(c.data.values[dataIdx + 1], min, max, height)
        g1 == IF y >= 0 /\ y < height
              THEN setGridPoint(c, grid, x, y, dataIdx, height, min, max)
              ELSE grid
    IN IF dataIdx > startIdx
       THEN drawVerticalLine(g1, x, valueToY(c.data.values[dataIdx], min, max, height),
                             y, chartWidth, height)
       ELSE g1

RECURSIVE plotFrom(_, _, _, _, _, _, _, _, _)
\* the loop of plotDataPoints from index i (a grid without rows takes no point;
\* the test on it makes TLC evaluate the grid of one iteration before the next)
plotFrom(c, grid, i, startIdx, endIdx, min, max, height, chartWidth) ==
    IF i >= endIdx \/ i - startIdx >= chartWidth \/ Len(grid) = 0 THEN grid
    ELSE plotFrom(c, plotSinglePoint(c, grid, i, i - startIdx, min, max, height,
                                     chartWidth, startIdx),
                  i + 1, startIdx, endIdx, min, max, height, chartWidth)

\* plotDataPoints
plotDataPoints(c, grid, min, max, height, chartWidth) ==
    LET range == calculateVisibleDataRange(c, chartWidth)
    IN plotFrom(c, grid, range[1], range[1], range[2], min, max, height, chartWidth)

\* the uncoloured grid of createGrid
plotGrid(c, min, max, height) ==
    LET chartWidth == calculateEffectiveChartWidth(c)
        grid == initializeEmptyGrid(height, chartWidth)
    IN IF grid = PanicGrid \/ Len(c.data.values) = 0 THEN grid
       ELSE plotDataPoints(c, grid, min, max, height, chartWidth)

\* applyColorToGrid
applyColorToGrid(c, grid) ==
    [i \in 1..Len(grid) |-> <<ColorTag(c.color)>> \o grid[i] \o <<"[-]">>] \o <<>>

\* createGrid
createGrid(c, min, max, height) ==
    LET grid == plotGrid(c, min, max, height)
    IN IF grid = PanicGrid \/ Len(c.data.values) = 0 THEN grid
       ELSE applyColorToGrid(c, grid)

RECURSIVE bodyRows(_, _, _, _, _, _, _)
\* what the loop of renderChartBody writes for rows i .. j - 1, in order (the
\* rows are taken in halves, which keeps the evaluation shallow)
bodyRows(c, grid, i, j, chartHeight, min, max) ==
    IF i >= j THEN <<>>
    ELSE IF j - i = 1
    THEN LET yv == calculateYValue(i, chartHeight, min, max)
             label == formatValue(c, yv[1], yv[2])
         IN <<"[gray]">> \o PadLeft8(label) \o <<" ", BoxTeeLeft, "[-]", " ">> \o grid[i + 1]
            \o <<NL>>
    ELSE bodyRows(c, grid, i, (i + j) \div 2, chartHeight, min, max)
         \o bodyRows(c, grid, (i + j) \div 2, j, chartHeight, min, max)

\* renderChartBody
renderChartBody(c, min, max) ==
    LET chartHeight == calculateChartHeight(c)
        grid == createGrid(c, min, max, chartHeight)
    IN IF grid = PanicGrid THEN PanicText
       ELSE bodyRows(c, grid, 0, chartHeight, chartHeight, min, max)

\* renderXAxis
renderXAxis(c) ==
    Cat3(<<"[gray]">> \o PadLeft8(<<>>) \o <<" ", BoxBottomLeft>>,
         Repeat(BoxHorizontal, c.width - YAxisLabelWidth),
         <<"[-]", NL>>)

\* createTimeLabels writing the end label whatever the spacing
createTimeLabelsAlwaysEnd(c) ==
    LET ts == c.data.timestamps
    IN IF Len(ts) = 0 THEN <<>>
       ELSE LET chartWidth == c.width - 11
                startTime == ts[1]
                endTime == ts[Len(ts)]
                duration == endTime - startTime
                labelWidth == 8
                spacing == chartWidth - (3 * labelWidth)
                midSpacing == GoDiv(spacing, 2)
                remainingSpace == spacing - midSpacing - 4
                endLabel == <<"[gray]">> \o FormatClock(endTime)
                tail == IF Len(ts) > 1
                        THEN IF midSpacing > 4
                             THEN Repeat(" ", midSpacing - 4)
                                  \o <<"[cyan]", "(">> \o formatChartDuration(duration)
                                  \o <<")", "[-]">>
                                  \o (IF remainingSpace > 0 THEN Repeat(" ", remainingSpace)
                                      ELSE <<>>)
                                  \o endLabel
                             ELSE Repeat(" ", Max2(spacing, 0)) \o endLabel
                        ELSE <<>>
            IN <<"[gray]">> \o PadLeft8(<<>>) \o <<" ", " ", " ">>
               \o <<"[gray]">> \o FormatClock(startTime) \o tail \o <<"[-]">>

\* createTimeLabels
createTimeLabels(c) ==
    LET ts == c.data.timestamps
    IN IF Len(ts) = 0 THEN <<>>
       ELSE LET chartWidth == c.width - 11
                startTime == ts[1]
                endTime == ts[Len(ts)]
                duration == endTime - startTime
                labelWidth == 8
                spacing == chartWidth - (3 * labelWidth)
                midSpacing == GoDiv(spacing, 2)
                remainingSpace == spacing - midSpacing - 4
                endLabel == <<"[gray]">> \o FormatClock(endTime)
                tail == IF spacing > 0 /\ Len(ts) > 1
                        THEN IF midSpacing > 4
                             THEN Repeat(" ", midSpacing - 4)
                                  \o <<"[cyan]", "(">> \o formatChartDuration(duration)
                                  \o <<")", "[-]">>
                                  \o (IF remainingSpace > 0 THEN Repeat(" ", remainingSpace)
                                      ELSE <<>>)
                                  \o endLabel
                             ELSE Repeat(" ", spacing) \o endLabel
                        ELSE <<>>
            IN <<"[gray]">> \o PadLeft8(<<>>) \o <<" ", " ", " ">>
               \o <<"[gray]">> \o FormatClock(startTime) \o tail \o <<"[-]">>

RECURSIVE emptyRows(_, _, _, _, _, _)
\* what the row loop of renderEmptyChart writes for rows i .. j - 1, in order
\* (the rows are taken in halves, which keeps the evaluation shallow)
emptyRows(c, i, j, chartHeight, minVal, maxVal) ==
    IF i >= j THEN <<>>
    ELSE IF j - i = 1
    THEN LET label == formatValue(c, maxVal * (chartHeight - 1) - i * (maxVal - minVal),
                                  Scale * (chartHeight - 1))
         IN Cat4(<<"[gray]">> \o PadLeft8(label) \o <<" ", BoxTeeLeft, "[-]", " ">>,
                 <<"[gray]">>, Repeat(MiddleDot, c.width - 11), <<"[-]", NL>>)
    ELSE Cat(emptyRows(c, i, (i + j) \div 2, chartHeight, minVal, maxVal),
             emptyRows(c, (i + j) \div 2, j, chartHeight, minVal, maxVal))

\* renderEmptyChart
renderEmptyChart(c) ==
    IF c.width <= 0 \/ c.height <= 0 THEN <<>>
    ELSE LET full == <<" ">> \o c.title \o <<" ">>
             titleStr == IF c.width < ByteLen(full)
                         THEN Cat(GoSliceTo(c.title, c.width - 2), <<" ">>)
                         ELSE full
         IN IF IsPanic(titleStr) THEN PanicText
            ELSE LET titleLen == ByteLen(titleStr)
                     sidePadding == Max2(GoDiv(c.width - titleLen, 2), 0)
                     remainingPadding == Max2(c.width - titleLen - sidePadding, 0)
                     chartHeight == Max2(c.height - ChartHeightReserve, 2)
                     minVal == IF c.unit = <<"W">> THEN -20 * Scale ELSE 0
                     maxVal == IF c.unit = <<"W">> \/ c.unit = <<"V">> THEN 20 * Scale
                               ELSE 100 * Scale
                 IN Cat4(Repeat(BoxHorizontal, sidePadding) \o <<BoldTag(c.color)>> \o titleStr
                         \o <<"[-]">> \o Repeat(BoxHorizontal, remainingPadding) \o <<NL>>,
                         emptyRows(c, 0, chartHeight, chartHeight, minVal, maxVal),
                         Cat3(<<"[gray]">> \o PadLeft8(<<>>) \o <<" ", BoxBottomLeft>>,
                              Repeat(BoxHorizontal, c.width - 11), <<"[-]", NL>>),
                         <<"[gray]">> \o PadLeft8(<<>>) \o WaitingText)

\* Chart.Render guarding the width only
ChartRenderNoHeightGuard(c) ==
    IF c.width <= 0 THEN InitializingText
    ELSE IF Len(c.data.values) = 0 THEN renderEmptyChart(c)
    ELSE LET b == calculateBounds(c)
         IN Cat4(renderTitle(c), renderChartBody(c, b[1], b[2]), renderXAxis(c),
                 createTimeLabels(c))

\* Chart.Render
ChartRender(c) ==
    IF c.width <= 0 \/ c.height <= 0 THEN InitializingText
    ELSE IF Len(c.data.values) = 0 THEN renderEmptyChart(c)
    ELSE LET b == calculateBounds(c)
         IN Cat4(renderTitle(c), renderChartBody(c, b[1], b[2]), renderXAxis(c),
                 createTimeLabels(c))

----------------------------------------------------------------------------
(* ChartSet (charts.go)                                                    *)

NewChartSet == [charts |-> <<>>, width |-> 0, height |-> 0]

\* ChartSet.AddChart followed by a SetSize to the set's width and height
ChartSetAddChartResizing(set, chart) ==
    LET n == Len(set.charts) + 1
    IN [set EXCEPT !.charts = [i \in 1..n |->
                                 [(IF i < n THEN set.charts[i] ELSE chart) EXCEPT
                                     !.width = set.width,
                                     !.height = GoDiv(set.height, n)]] \o <<>>]

\* ChartSet.AddChart
ChartSetAddChart(set, chart) == [set EXCEPT !.charts = Append(set.charts, chart)]

\* ChartSet.SetSize handing the rows left over by the division to the last chart
ChartSetSetSizeRemainderToLast(set, width, height) ==
    LET n == Len(set.charts)
    IN [set EXCEPT !.width = width, !.height = height,
                   !.charts = IF n > 0
                              THEN [i \in 1..n |->
                                      ChartSetSize(set.charts[i], width,
                                                   IF i = n
                                                   THEN height - (n - 1) * GoDiv(height, n)
                                                   ELSE GoDiv(height, n))]
                                   \o <<>>
                              ELSE set.charts]

\* ChartSet.SetSize returning before anything is recorded when there is no chart
ChartSetSetSizeNothingOnEmpty(set, width, height) ==
    LET n == Len(set.charts)
    IN IF n = 0 THEN set
       ELSE [set EXCEPT !.width = width, !.height = height,
                        !.charts = [i \in 1..n |->
                                      ChartSetSize(set.charts[i], width, GoDiv(height, n))]
                                   \o <<>>]

\* ChartSet.SetSize
ChartSetSetSize(set, width, height) ==
    LET n == Len(set.charts)
    IN [set EXCEPT !.width = width, !.height = height,
                   !.charts = IF n > 0
                              THEN [i \in 1..n |->
                                      ChartSetSize(set.charts[i], width, GoDiv(height, n))]
                                   \o <<>>
                              ELSE set.charts]

RECURSIVE renderFrom(_, _, _)
\* the loop of ChartSet.Render from chart i (1-based), result being what the
\* strings.Builder holds so far; a panic ends the loop
renderFrom(set, i, result) ==
    IF i > Len(set.charts) \/ IsPanic(result) THEN result
    ELSE renderFrom(set, i + 1,
                    Cat3(result, IF i > 1 THEN <<NL>> ELSE <<>>, ChartRender(set.charts[i])))

\* ChartSet.Render writing the newline after every chart
ChartSetRenderTrailingNewline(set) ==
    IF Len(set.charts) = 0 THEN <<>> ELSE Cat(renderFrom(set, 1, <<>>), <<NL>>)

\* ChartSet.Render
ChartSetRender(set) == renderFrom(set, 1, <<>>)

----------------------------------------------------------------------------
(* Inputs                                                                  *)

\* the charts NewView creates, and one with a title wider than a narrow frame
PowerKind == [title |-> <<"P", "o", "w", "e", "r">>, unit |-> <<"W">>, color |-> "green"]

VoltageKind ==
    [title |-> <<"V", "o", "l", "t", "a", "g", "e">>, unit |-> <<"V">>, color |-> "yellow"]

ChargeKind ==
    [title |-> <<"C", "h", "a", "r", "g", "e">>, unit |-> <<"%">>, color |-> "cyan"]

LongKind ==
    [title |-> <<"B", "a", "t", "t", "e", "r", "y", " ", "l", "e", "v", "e", "l">>,
     unit |-> <<"%">>, color |-> "cyan"]

ChartKinds == {PowerKind, LongKind}

\* a chart whose title has a character outside ASCII (e with acute accent)
AccentKind ==
    [title |-> <<"D", "EAcute", "b", "i", "t">>, unit |-> <<"W">>, color |-> "green"]

\* buffer capacities (maxDataPoints)
Capacities == {1, 2, 3}

\* sample values: -1.0, 1.0005 and 1.0015 (the last two 0.001 apart)
Values == {-Scale, Scale + 10, Scale + 30}

\* <<min, max>> pairs given to SetScale: 0.5 .. 1.001, and the degenerate 1.0 .. 1.0
Scales == {<<Scale \div 2, Scale + 20>>, <<Scale, Scale>>}

\* <<width, height>> pairs given to SetSize
Sizes ==
    {<<0, 7>>, <<13, -1>>, <<1, 7>>, <<10, 7>>, <<11, 7>>, <<12, 7>>, <<13, 1>>,
     <<14, 8>>, <<16, 7>>}

\* seconds between two readings of time.Now()
TimeSteps == {1}

\* the most samples appended to one chart
MaxAppends == 4

\* the clock when the program starts (seconds)
StartTime == 12 * 3600

\* the return of a call that returns nothing
Void(op) == [op |-> op, out |-> <<>>]

NoReturn == Void("none")

----------------------------------------------------------------------------
(* One chart in a set: NewChart and AddChart, then AddValue, SetSize,      *)
(* SetScale and Render calls on the chart and Render calls on the set      *)

TheChart == cs.charts[1]

Init ==
    /\ \E k \in ChartKinds, cap \in Capacities :
          cs = ChartSetAddChart(NewChartSet, NewChart(k.title, cap, k.unit, k.color))
    /\ now = StartTime
    /\ hist = <<<<>>>>
    /\ ret = NoReturn
    /\ proc = <<>>

\* c.AddValue(v) on chart i, time.Now() returning t
AddValue(i, v, t) ==
    /\ Len(hist[i]) < MaxAppends
    /\ cs' = [cs EXCEPT !.charts[i] = ChartAddValue(@, v, t)]
    /\ now' = t
    /\ hist' = [hist EXCEPT ![i] = Append(@, [v |-> v, t |-> t])]
    /\ ret' = Void("Chart.AddValue")
    /\ UNCHANGED envVars

\* c.SetSize(w, h) on chart i
SetSize(i, w, h) ==
    /\ cs' = [cs EXCEPT !.charts[i] = ChartSetSize(@, w, h)]
    /\ ret' = Void("Chart.SetSize")
    /\ UNCHANGED <<now, hist, envVars>>

\* c.SetScale(min, max) on chart i
SetScale(i, min, max) ==
    /\ cs' = [cs EXCEPT !.charts[i] = ChartSetScale(@, min, max)]
    /\ ret' = Void("Chart.SetScale")
    /\ UNCHANGED <<now, hist, envVars>>

\* c.Render() trimming the buffer to the visible window while it draws
RenderTrimming(i) ==
    /\ ret' = [op |-> "Chart.Render", out |-> ChartRender(cs.charts[i])]
    /\ cs' = [cs EXCEPT !.charts[i].data.values =
                  IF Len(@) > 1 /\ cs.charts[i].width > 0 THEN Tail(@) ELSE @]
    /\ UNCHANGED <<now, hist, envVars>>

\* c.Render() on chart i
Render(i) ==
    /\ ret' = [op |-> "Chart.Render", out |-> ChartRender(cs.charts[i])]
    /\ UNCHANGED <<cs, now, hist, envVars>>

\* cs.Render()
SetRender ==
    /\ ret' = [op |-> "ChartSet.Render", out |-> ChartSetRender(cs)]
    /\ UNCHANGED <<cs, now, hist, envVars>>

Next ==
    \/ \E v \in Values, dt \in TimeSteps : AddValue(1, v, now + dt)
    \/ \E s \in Sizes : SetSize(1, s[1], s[2])
    \/ \E b \in Scales : SetScale(1, b[1], b[2])
    \/ Render(1)
    \/ SetRender

Spec == Init /\ [][Next]_vars

----------------------------------------------------------------------------
(* A chart set: NewChartSet, then AddChart, SetSize, AddValue and Render.  *)
(* Each member chart gets at most one sample here (its first); charts with *)
(* fuller buffers are the subject of Spec.                                 *)

SetKinds == {VoltageKind, PowerKind}

\* MaxChartDataPoints, the capacity NewView gives every chart
MaxChartDataPoints == 120

\* <<width, height>> pairs given to ChartSet.SetSize
SetSizes == {<<100, 30>>, <<100, 31>>, <<13, 15>>, <<13, -7>>, <<0, 14>>, <<5, 21>>}

\* the most charts in the set
MaxCharts == 3

InitSet ==
    /\ cs = NewChartSet
    /\ now = StartTime
    /\ hist = <<>>
    /\ ret = NoReturn
    /\ proc = <<>>

\* cs.AddChart(NewChart(...))
AddChart(k) ==
    /\ Len(cs.charts) < MaxCharts
    /\ cs' = ChartSetAddChart(cs, NewChart(k.title, MaxChartDataPoints, k.unit, k.color))
    /\ hist' = Append(hist, <<>>)
    /\ ret' = Void("ChartSet.AddChart")
    /\ UNCHANGED <<now, envVars>>

\* cs.SetSize(w, h)
SetSetSize(w, h) ==
    /\ cs' = ChartSetSetSize(cs, w, h)
    /\ ret' = Void("ChartSet.SetSize")
    /\ UNCHANGED <<now, hist, envVars>>

NextSet ==
    \/ \E k \in SetKinds : AddChart(k)
    \/ \E s \in SetSizes : SetSetSize(s[1], s[2])
    \/ \E i \in 1..Len(cs.charts) : hist[i] = <<>> /\ AddValue(i, Scale, now + 1)
    \/ SetRender

SpecSet == InitSet /\ [][NextSet]_vars

----------------------------------------------------------------------------
(* Two goroutines on one chart.  Application.Run starts processEvents with   *)
(* `go` and then calls ui.Update itself; processEvents calls ui.Update on    *)
(* every tick.  View.Update appends to the charts and renders them, and no   *)
(* lock is taken, so the statements of ChartData.Add of one goroutine        *)
(* interleave with the other goroutine's Add and Render.  A statement is one *)
(* step; a Render reads the buffer as it is between two statements.          *)

Goroutines == {"main", "events"}

RaceCapacities == {1, 2}

RaceValues == {Scale, Scale + 30}

\* a goroutine outside ChartData.Add
Idle == [pc |-> "idle", value |-> 0, seen |-> <<0, 0>>]

InitRace ==
    /\ \E cap \in RaceCapacities :
          cs = ChartSetAddChart(NewChartSet,
                                ChartSetSize(NewChart(PowerKind.title, cap, PowerKind.unit,
                                                      PowerKind.color), 14, 7))
    /\ now = StartTime
    /\ hist = <<<<>>>>
    /\ ret = NoReturn
    /\ proc = [g \in Goroutines |-> Idle]

\* g calls chart.AddValue(v), which calls c.data.Add(v)
AddBegin(g, v) ==
    /\ proc[g].pc = "idle"
    /\ Len(hist[1]) < MaxAppends
    /\ proc' = [proc EXCEPT ![g].pc = "L33", ![g].value = v]
    /\ hist' = [hist EXCEPT ![1] = Append(@, [v |-> v, t |-> now + 1])]
    /\ now' = now + 1
    /\ UNCHANGED <<cs, ret>>

\* cd.timestamps = append(cd.timestamps, time.Now())
Add33(g) ==
    /\ proc[g].pc = "L33"
    /\ cs' = [cs EXCEPT !.charts[1].data.timestamps = Append(@, now)]
    /\ proc' = [proc EXCEPT ![g].pc = "L34"]
    /\ UNCHANGED <<now, hist, ret>>

\* cd.values = append(cd.values, value)
Add34(g) ==
    /\ proc[g].pc = "L34"
    /\ cs' = [cs EXCEPT !.charts[1].data.values = Append(@, proc[g].value)]
    /\ proc' = [proc EXCEPT ![g].pc = "L37"]
    /\ UNCHANGED <<now, hist, ret>>

\* if len(cd.values) > cd.maxSize; Add returns when the test fails
Add37(g) ==
    /\ proc[g].pc = "L37"
    /\ IF Len(TheChart.data.values) > TheChart.data.maxSize
       THEN /\ proc' = [proc EXCEPT ![g].pc = "L38"]
            /\ ret' = ret
       ELSE /\ proc' = [proc EXCEPT ![g].pc = "idle"]
            /\ ret' = Void("Chart.AddValue")
    /\ UNCHANGED <<cs, now, hist>>

\* cd.timestamps = cd.timestamps[1:]
Add38(g) ==
    /\ proc[g].pc = "L38"
    /\ cs' = [cs EXCEPT !.charts[1].data.timestamps = Tail(@)]
    /\ proc' = [proc EXCEPT ![g].pc = "L39"]
    /\ UNCHANGED <<now, hist, ret>>

\* cd.values = cd.values[1:], and Add returns
Add39(g) ==
    /\ proc[g].pc = "L39"
    /\ cs' = [cs EXCEPT !.charts[1].data.values = Tail(@)]
    /\ proc' = [proc EXCEPT ![g].pc = "idle"]
    /\ ret' = Void("Chart.AddValue")
    /\ UNCHANGED <<now, hist>>

\* g calls chart.Render(); seen records the lengths of timestamps and values
\* that the render read
RaceRender(g) ==
    /\ proc[g].pc = "idle"
    /\ ret' = [op |-> "Chart.Render", out |-> ChartRender(TheChart)]
    /\ proc' = [proc EXCEPT ![g].seen = <<Len(TheChart.data.timestamps),
                                          Len(TheChart.data.values)>>]
    /\ UNCHANGED <<cs, now, hist>>

NextRace ==
    \/ \E g \in Goroutines, v \in RaceValues : AddBegin(g, v)
    \/ \E g \in Goroutines : Add33(g)
    \/ \E g \in Goroutines : Add34(g)
    \/ \E g \in Goroutines : Add37(g)
    \/ \E g \in Goroutines : Add38(g)
    \/ \E g \in Goroutines : Add39(g)
    \/ \E g \in Goroutines : RaceRender(g)

SpecRace == InitRace /\ [][NextRace]_vars

----------------------------------------------------------------------------
(* One chart at text level: besides AddValue, SetSize and Render, the       *)
(* formatting helpers of the chart are called on their own, so that they    *)
(* are seen also at widths where Chart.Render as a whole fails.  Samples    *)
(* arrive seconds, minutes or hours apart.                                  *)

\* <<width, height>> pairs given to SetSize: every width from 2 to 18, and the
\* widths around the two thresholds of createTimeLabels (36 and 45)
TextSizes ==
    {<<w, 7>> : w \in 2..18} \cup {<<35, 7>>, <<36, 7>>, <<44, 7>>, <<45, 7>>, <<60, 9>>}

\* seconds between two samples
TextTimeSteps == {1, 90, 3700}

\* the most samples appended to the chart
MaxTextAppends == 2

\* arguments of formatValue, <<num, den>> standing for num/den: 1234.5, 12.34,
\* 1.234, 0.1234, -1234.5, 1235.5, 999.5, 10, 0.25 and 0.  The ties among them
\* (x.5 at no decimal) are exact in binary floating point, as in decimal
FormatInputs ==
    {<<12345, 10>>, <<1234, 100>>, <<1234, 1000>>, <<1234, 10000>>, <<-12345, 10>>,
     <<12355, 10>>, <<9995, 10>>, <<10, 1>>, <<25, 100>>, <<0, 1>>}

\* the charts of the text-level specification
TextKinds == {PowerKind, LongKind, AccentKind}

InitText ==
    /\ \E k \in TextKinds :
          cs = ChartSetAddChart(NewChartSet, NewChart(k.title, 3, k.unit, k.color))
    /\ now = StartTime
    /\ hist = <<<<>>>>
    /\ ret = NoReturn
    /\ proc = <<>>

\* c.formatValue(num/den)
CallFormatValue(num, den) ==
    /\ ret' = [op |-> "Chart.formatValue", out |-> formatValue(TheChart, num, den),
               arg |-> <<num, den>>]
    /\ UNCHANGED <<cs, now, hist, envVars>>

\* c.renderTitle(&result) on an empty builder
CallRenderTitle ==
    /\ ret' = [op |-> "Chart.renderTitle", out |-> renderTitle(TheChart)]
    /\ UNCHANGED <<cs, now, hist, envVars>>

NextText ==
    \/ \E dt \in TextTimeSteps :
          Len(hist[1]) < MaxTextAppends /\ AddValue(1, Scale, now + dt)
    \/ \E s \in TextSizes : SetSize(1, s[1], s[2])
    \/ Render(1)
    \/ \E v \in FormatInputs : CallFormatValue(v[1], v[2])
    \/ CallRenderTitle

SpecText == InitText /\ [][NextText]_vars

----------------------------------------------------------------------------
(* The application around the chart set, one goroutine at a time: the       *)
(* battery manager, Interface.Update, View.Update, and the EventTick case   *)
(* of processEvents.  Here proc holds the manager and the progress of Run.  *)

DefaultChartWidth == 80

DefaultChartHeight == 20

\* what the battery library reports for the first battery (Voltage in V,
\* ChargeRate in mW, Current and Full in mWh)
Infos ==
    {[State |-> "Discharging", Voltage |-> 12 * Scale, ChargeRate |-> -15000 * Scale,
      Current |-> 30, Full |-> 60],
     [State |-> "Charging", Voltage |-> 11 * Scale + Scale \div 2,
      ChargeRate |-> 20000 * Scale, Current |-> 45, Full |-> 0]}

\* what battery.GetAll() returns on a tick: an error, no battery, or one battery
Reads ==
    {[err |-> TRUE, batteries |-> <<>>], [err |-> FALSE, batteries |-> <<>>]}
        \cup {[err |-> FALSE, batteries |-> <<info>>] : info \in Infos}

\* what chartArea.GetInnerRect() returns as <<w, h>>: nothing drawn yet, a
\* large terminal and a very narrow one
Rects == {<<0, 0>>, <<100, 31>>, <<5, 10>>}

\* the most ticks handled
MaxTicks == 2

\* Info.ChargePercent
ChargePercent(b) ==
    IF b.Full <= 0 THEN 0
    ELSE LET percent == (b.Current * 100 * Scale) \div b.Full
         IN IF percent > 100 * Scale THEN 100 * Scale
            ELSE IF percent < 0 THEN 0
            ELSE percent

\* convertState, from the name the battery library gives the state
convertState(s) ==
    IF s = "Empty" THEN "StateEmpty"
    ELSE IF s = "Full" THEN "StateFull"
    ELSE IF s = "Charging" THEN "StateCharging"
    ELSE IF s = "Discharging" THEN "StateDischarging"
    ELSE IF s = "Not charging" THEN "StateNotCharging"
    ELSE "StateUnknown"

\* normalizeChargeRate storing the rate as reported
normalizeChargeRateKeep(info) ==
    info

\* normalizeChargeRate
normalizeChargeRate(info) ==
    IF info.State = "StateDischarging" /\ info.ChargeRate > 0
    THEN [info EXCEPT !.ChargeRate = -info.ChargeRate]
    ELSE info

\* convertBatteriesToInfo: one Info per reported battery (the fields the
\* platform reader adds are not modelled)
convertBatteriesToInfo(batteries) ==
    [i \in 1..Len(batteries) |->
        normalizeChargeRate([Index |-> i - 1,
                             State |-> convertState(batteries[i].State),
                             Current |-> batteries[i].Current,
                             Full |-> batteries[i].Full,
                             ChargeRate |-> batteries[i].ChargeRate,
                             Voltage |-> batteries[i].Voltage])] \o <<>>

\* NewManager
NewManager == [batteries |-> <<>>, lastError |-> FALSE]

\* setLastError that also drops the stored batteries
setLastErrorDropping(m) == [batteries |-> <<>>, lastError |-> TRUE]

\* Manager.setLastError
setLastError(m) == [m EXCEPT !.lastError = TRUE]

\* Manager.Update with battery.GetAll() returning `read`
ManagerUpdate(m, read) ==
    IF read.err \/ Len(read.batteries) = 0 THEN setLastError(m)
    ELSE [batteries |-> convertBatteriesToInfo(read.batteries), lastError |-> FALSE]

\* Manager.GetAll: [err, batteries]
ManagerGetAll(m) ==
    IF m.lastError THEN [err |-> TRUE, batteries |-> <<>>]
    ELSE [err |-> FALSE, batteries |-> m.batteries]

\* the chart set NewView builds: voltage, power and charge
NewView ==
    ChartSetAddChart(ChartSetAddChart(ChartSetAddChart(NewChartSet,
        NewChart(VoltageKind.title, MaxChartDataPoints, VoltageKind.unit, VoltageKind.color)),
        NewChart(PowerKind.title, MaxChartDataPoints, PowerKind.unit, PowerKind.color)),
        NewChart(ChargeKind.title, MaxChartDataPoints, ChargeKind.unit, ChargeKind.color))

\* View.Update(info) with GetInnerRect() = rect and time.Now() = t: the chart
\* set afterwards, the text handed to chartArea, and the calls made on the
\* charts and the chart set, in order
ViewUpdate(set, info, rect, t) ==
    LET added == [set EXCEPT
                     !.charts[1] = ChartAddValue(@, info.Voltage, t),
                     !.charts[2] = ChartAddValue(@, GoDiv(info.ChargeRate, 1000), t),
                     !.charts[3] = ChartAddValue(@, ChargePercent(info), t)]
        adds == <<"voltageChart.AddValue", "powerChart.AddValue", "chargeChart.AddValue">>
        dims == IF rect[1] <= 0 \/ rect[2] <= 0
                THEN <<DefaultChartWidth, DefaultChartHeight>>
                ELSE rect
    IN IF dims[1] <= 0 \/ dims[2] <= 0
       THEN [cs |-> added, out |-> <<>>, calls |-> adds]
       ELSE LET sized == ChartSetSetSize(added, dims[1], dims[2] - 1)
            IN [cs |-> sized, out |-> ChartSetRender(sized),
                calls |-> adds \o <<"chartSet.SetSize", "chartSet.Render">>]

\* Interface.Update updating the view from the batteries whatever GetAll reports
InterfaceUpdateIgnoringError(m, set, rect, t) ==
    IF Len(m.batteries) > 0 THEN ViewUpdate(set, m.batteries[1], rect, t)
    ELSE [cs |-> set, out |-> <<>>, calls |-> <<>>]

\* Interface.Update
InterfaceUpdate(m, set, rect, t) ==
    LET all == ManagerGetAll(m)
    IN IF all.err THEN [cs |-> set, out |-> <<>>, calls |-> <<>>]
       ELSE IF Len(all.batteries) > 0 THEN ViewUpdate(set, all.batteries[1], rect, t)
       ELSE [cs |-> set, out |-> <<>>, calls |-> <<>>]

\* the samples an update appended, added to the history of each chart
Recorded(h, before, after, t) ==
    [i \in 1..Len(h) |->
        IF Len(after.charts[i].data.values) > Len(before.charts[i].data.values)
        THEN Append(h[i], [v |-> after.charts[i].data.values[Len(after.charts[i].data.values)],
                           t |-> t])
        ELSE h[i]] \o <<>>

\* Run up to NewInterface: the initial manager.Update has succeeded, NewView
\* has built the charts and initializeBattery has updated the view once
InitTick ==
    /\ \E info \in Infos :
          /\ proc = [manager |-> ManagerUpdate(NewManager,
                                                [err |-> FALSE, batteries |-> <<info>>]),
                     ticks |-> 0, forced |-> FALSE]
          /\ cs = ViewUpdate(NewView, proc.manager.batteries[1], <<0, 0>>, StartTime).cs
          /\ hist = Recorded(<<<<>>, <<>>, <<>>>>, NewView, cs, StartTime)
    /\ now = StartTime
    /\ ret = NoReturn

\* Run: the forced a.ui.Update() after processEvents is started
ForcedUpdate(rect) ==
    /\ ~proc.forced
    /\ ~IsPanic(ret.out)
    /\ LET u == InterfaceUpdate(proc.manager, cs, rect, now + 1)
       IN /\ cs' = u.cs
          /\ hist' = Recorded(hist, cs, u.cs, now + 1)
          /\ ret' = [op |-> "Interface.Update", out |-> u.out, calls |-> u.calls]
    /\ proc' = [proc EXCEPT !.forced = TRUE]
    /\ now' = now + 1

\* processEvents, case EventTick: manager.Update() with battery.GetAll()
\* returning `read`, then a.ui.Update()
Tick(read, rect) ==
    /\ proc.ticks < MaxTicks
    /\ ~IsPanic(ret.out)
    /\ LET m == ManagerUpdate(proc.manager, read)
           u == InterfaceUpdate(m, cs, rect, now + 1)
       IN /\ cs' = u.cs
          /\ hist' = Recorded(hist, cs, u.cs, now + 1)
          /\ ret' = [op |-> "EventTick", out |-> u.out, calls |-> u.calls]
          /\ proc' = [proc EXCEPT !.manager = m, !.ticks = @ + 1]
    /\ now' = now + 1

NextTick ==
    \/ \E rect \in Rects : ForcedUpdate(rect)
    \/ \E read \in Reads, rect \in Rects : Tick(read, rect)

SpecTick == InitTick /\ [][NextTick]_vars

----------------------------------------------------------------------------
(* Claims                                                                  *)

\* the values, and the timestamps, of the last k samples of history h
LastValues(h, k) == [j \in 1..k |-> h[Len(h) - k + j].v]

LastTimes(h, k) == [j \in 1..k |-> h[Len(h) - k + j].t]

\* C1: after N > C appends into a buffer of capacity C >= 1 the buffer holds
\* exactly the last C appended values, in append order, and the timestamps
\* sequence holds the timestamps of those same C appends.
C1_BoundedRetention ==
    \A i \in 1..Len(cs.charts) :
        LET cd == cs.charts[i].data
        IN (cd.maxSize >= 1 /\ Len(hist[i]) > cd.maxSize)
           => /\ cd.values = LastValues(hist[i], cd.maxSize)
              /\ cd.timestamps = LastTimes(hist[i], cd.maxSize)

\* C1 witness: a capacity-2 buffer after three appends of which the evicted
\* first differs from the two retained
C1_Witness ==
    /\ TheChart.data.maxSize = 2
    /\ Len(hist[1]) = 3
    /\ hist[1][1].v # hist[1][2].v
    /\ hist[1][2].v # hist[1][3].v

IsRender(r) == r.op \in {"Chart.Render", "ChartSet.Render"}

\* C2: a Render call (of the chart or of the set) changes nothing of the
\* chart set (buffers, sizes, scale, chart order), and a Render that directly
\* follows a Render of the same kind returns the same output.
C2_DeterministicRender ==
    [][IsRender(ret') => /\ cs' = cs
                         /\ now' = now
                         /\ (ret.op = ret'.op => ret'.out = ret.out)]_vars

\* C2 witness: a chart with data, manual scale and a drawable size was rendered
C2_Witness ==
    /\ ret.op = "Chart.Render"
    /\ Len(TheChart.data.values) >= 2
    /\ ~TheChart.autoScale
    /\ TheChart.width > YAxisLabelWidth
    /\ ~IsPanic(ret.out)

\* C3: for every width >= 1 and height >= 1, every title and every buffer,
\* Chart.Render returns a text block and does not panic.
C3_Totality ==
    (ret.op = "Chart.Render" /\ TheChart.width >= 1 /\ TheChart.height >= 1)
        => ~IsPanic(ret.out)

\* C4: with width <= 0 or height <= 0 Chart.Render returns the non-empty
\* one-line "Initializing" placeholder (no grid, no panic), whatever the
\* buffer and the scale mode.
C4_GeometryGuard ==
    (ret.op = "Chart.Render" /\ (TheChart.width <= 0 \/ TheChart.height <= 0))
        => /\ ~IsPanic(ret.out)
           /\ Len(ret.out) > 0
           /\ \A k \in 1..Len(ret.out) : ret.out[k] \notin {NL, BoxTeeLeft, BoxBottomLeft}
           /\ SubSeq(ret.out, 3, 14)
                = <<"I", "n", "i", "t", "i", "a", "l", "i", "z", "i", "n", "g">>

\* C4 witness: a chart with data and manual scale rendered at height <= 0 and
\* a positive width
C4_Witness ==
    /\ ret.op = "Chart.Render"
    /\ TheChart.height <= 0
    /\ TheChart.width > 0
    /\ Len(TheChart.data.values) > 0
    /\ ~TheChart.autoScale

\* an AddValue step on chart 1, and the value it appended
IsAppend == Len(hist'[1]) = Len(hist[1]) + 1

Appended == hist'[1][Len(hist'[1])].v

UpperBound(c) == calculateBounds(c)[2]

\* C5 as claimed: on every autoscale chart with a non-empty buffer (full or
\* not, flat or not), appending a value strictly greater than the buffered
\* maximum strictly increases the upper bound calculateBounds returns.
C5_Original ==
    [][(/\ IsAppend
        /\ TheChart.autoScale
        /\ Len(TheChart.data.values) > 0
        /\ Appended > SeqMax(TheChart.data.values))
       => UpperBound(cs'.charts[1]) > UpperBound(TheChart)]_vars

\* C5 amended: the same, for a buffer that is not full (the append evicts
\* nothing) and whose values span at least 0.001 (no flat-range widening
\* before the append).
C5_BoundsMonotonicity ==
    [][(/\ IsAppend
        /\ TheChart.autoScale
        /\ Len(TheChart.data.values) > 0
        /\ Len(TheChart.data.values) < TheChart.data.maxSize
        /\ SeqMax(TheChart.data.values) - SeqMin(TheChart.data.values) >= FlatEpsilon
        /\ Appended > SeqMax(TheChart.data.values))
       => UpperBound(cs'.charts[1]) > UpperBound(TheChart)]_vars

\* C5 witness: a third, larger sample was just appended to a capacity-3
\* autoscale buffer holding two samples at least 0.001 apart
C5_Witness ==
    /\ ret.op = "Chart.AddValue"
    /\ TheChart.autoScale
    /\ TheChart.data.maxSize = 3
    /\ Len(hist[1]) = 3
    /\ Abs(hist[1][1].v - hist[1][2].v) >= FlatEpsilon
    /\ hist[1][3].v > Max2(hist[1][1].v, hist[1][2].v)

----------------------------------------------------------------------------
(* The plot field of a rendered block                                      *)

PointGlyphs == {"*", "/", "\\", "o"}

\* a render of c that drew a plot field of at least one column from data
HasPlot(c) ==
    /\ c.width - YAxisLabelWidth >= 1
    /\ c.height >= 1
    /\ Len(c.data.values) >= 1

\* the plot cells of the block `out` rendered from c: row r (1-based, top first)
\* is line r + 1 of the block, without the y-axis gutter and the colour tags
PlotCells(c, out) ==
    LET lines == SplitLines(out)
        w == c.width - YAxisLabelWidth
    IN [r \in 1..calculateChartHeight(c) |->
          SubSeq(lines[r + 1], Len(lines[r + 1]) - w, Len(lines[r + 1]) - 1)]

\* column x (0-based) of the plot holds its one point glyph in the row of
\* buffer sample max(0, n - W) + x for x < min(n, W), and no point glyph beyond
WindowShown(c, out) ==
    LET n == Len(c.data.values)
        w == c.width - YAxisLabelWidth
        rows == calculateChartHeight(c)
        b == calculateBounds(c)
        grid == PlotCells(c, out)
        first == Max2(0, n - w)
    IN \A x \in 0..(w - 1) :
          LET marked == {y \in 0..(rows - 1) : grid[y + 1][x + 1] \in PointGlyphs}
          IN IF x < Min2(n, w)
             THEN marked = {valueToY(c.data.values[first + x + 1], b[1], b[2], rows)}
             ELSE /\ marked = {}
                  /\ \A y \in 0..(rows - 1) : grid[y + 1][x + 1] = " "

RECURSIVE AppendRun(_, _, _)
\* c after the appends of k * 1.0 at time StartTime + k, for k = from .. to,
\* in that order.  The run is taken in halves, and the first half is looked at
\* (an append leaves the capacity as it is) before the second is started,
\* which keeps the evaluation shallow
AppendRun(c, from, to) ==
    IF from > to THEN c
    ELSE IF from = to THEN ChartAddValue(c, from * Scale, StartTime + from)
    ELSE LET firstHalf == AppendRun(c, from, (from + to) \div 2)
         IN IF firstHalf.data.maxSize = c.data.maxSize
            THEN AppendRun(firstHalf, (from + to) \div 2 + 1, to)
            ELSE firstHalf

\* 200 appends into capacity 120, sized for a plot field of 40 columns
Chart200 ==
    AppendRun(ChartSetSize(NewChart(PowerKind.title, 120, PowerKind.unit, PowerKind.color),
                           40 + YAxisLabelWidth, 24),
              1, 200)

\* the 200-append chart: the window plotDataPoints draws from, and the
\* samples in it
Chart200Shown ==
    /\ calculateEffectiveChartWidth(Chart200) = 40
    /\ calculateVisibleDataRange(Chart200, 40) = <<80, 120>>
    /\ SubSeq(Chart200.data.values, 81, 120) = [k \in 1..40 |-> (160 + k) * Scale]
    /\ Len(Chart200.data.values) = 120

\* C6: a render with n samples and W = width - 11 >= 1 plot columns draws
\* exactly the last min(n, W) buffered samples, sample max(0, n - W) + x in
\* column x; the older samples stay in the buffer.  After 200 appends into
\* capacity 120 the window of a plot of 40 columns is appends 161..200.
C6_WindowSliding ==
    /\ (ret.op = "Chart.Render" /\ HasPlot(TheChart))
          => /\ WindowShown(TheChart, ret.out)
             /\ Len(TheChart.data.values) = Min2(Len(hist[1]), TheChart.data.maxSize)
    /\ Chart200Shown

\* C6 witness: a render of a buffer holding more samples than the plot has
\* columns, the oldest and the newest buffered sample on different rows
C6_Witness ==
    /\ ret.op = "Chart.Render"
    /\ HasPlot(TheChart)
    /\ Len(TheChart.data.values) > TheChart.width - YAxisLabelWidth
    /\ TheChart.autoScale
    /\ TheChart.data.values[1] # TheChart.data.values[Len(TheChart.data.values)]

\* the one cell holding "*" is the cell of the newest sample
NewestMarked(c, out) ==
    LET n == Len(c.data.values)
        w == c.width - YAxisLabelWidth
        rows == calculateChartHeight(c)
        b == calculateBounds(c)
        grid == PlotCells(c, out)
    IN {<<y, x>> \in (0..(rows - 1)) \X (0..(w - 1)) : grid[y + 1][x + 1] = "*"}
          = {<<valueToY(c.data.values[n], b[1], b[2], rows), Min2(n, w) - 1>>}

\* the buffer [1, 5, 1] in a 3-row plot of 3 columns
Chart151 ==
    AppendRun(AppendRun(AppendRun(
        ChartSetSize(NewChart(PowerKind.title, 3, PowerKind.unit, PowerKind.color),
                     3 + YAxisLabelWidth, 3 + ChartHeightReserve),
        1, 1), 5, 5), 1, 1)

\* [1, 5, 1] rendered: the peak in the middle column, the newest sample last
Chart151Shown ==
    /\ NewestMarked(Chart151, ChartRender(Chart151))
    /\ LET b == calculateBounds(Chart151)
           grid == PlotCells(Chart151, ChartRender(Chart151))
       IN /\ grid[valueToY(5 * Scale, b[1], b[2], 3) + 1][2] = "/"
          /\ grid[valueToY(Scale, b[1], b[2], 3) + 1][3] = "*"

\* C7: in every render with at least one sample and one plot column the cell
\* of the newest sample holds "*" (whether its row is above or below its
\* predecessor's), no other cell holds "*"; and [1, 5, 1] in a 3-row plot
\* draws the middle sample as "/" and the last as "*".
C7_GlyphPrecedence ==
    /\ (ret.op = "Chart.Render" /\ HasPlot(TheChart)) => NewestMarked(TheChart, ret.out)
    /\ Chart151Shown

\* C7 witness: a rendered three-sample buffer whose newest sample lies on a
\* row strictly below its predecessor's, the predecessor being a peak
C7_Witness ==
    /\ ret.op = "Chart.Render"
    /\ HasPlot(TheChart)
    /\ TheChart.width - YAxisLabelWidth >= 3
    /\ Len(TheChart.data.values) = 3
    /\ LET b == calculateBounds(TheChart)
           rows == calculateChartHeight(TheChart)
           y(k) == valueToY(TheChart.data.values[k], b[1], b[2], rows)
       IN y(3) > y(2) /\ y(1) > y(2)

\* the quotient of h by n >= 1 rounded toward zero
TruncQuot(h, n) ==
    CHOOSE q \in (-Abs(h))..Abs(h) :
       /\ Abs(q) * n <= Abs(h)
       /\ Abs(h) < (Abs(q) + 1) * n
       /\ (h >= 0 => q >= 0)
       /\ (h <= 0 => q <= 0)

\* three charts in a set
ThreeCharts ==
    ChartSetAddChart(ChartSetAddChart(ChartSetAddChart(NewChartSet,
        NewChart(VoltageKind.title, MaxChartDataPoints, VoltageKind.unit, VoltageKind.color)),
        NewChart(PowerKind.title, MaxChartDataPoints, PowerKind.unit, PowerKind.color)),
        NewChart(ChargeKind.title, MaxChartDataPoints, ChargeKind.unit, ChargeKind.color))

\* SetSize(100, 30) and SetSize(100, 31) on three charts: 100 by 10 each
ThreeChartsSized ==
    \A h \in {30, 31} : \A i \in 1..3 :
       /\ ChartSetSetSize(ThreeCharts, 100, h).charts[i].height = 10
       /\ ChartSetSetSize(ThreeCharts, 100, h).charts[i].width = 100

\* C8: immediately after ChartSet.SetSize(w, h) on a set of n >= 1 charts
\* every member chart has width w and height h div n, truncated, so that the
\* remainder goes to no chart; three charts get height 10 each from
\* SetSize(100, 30) and from SetSize(100, 31).
C8_EvenDistribution ==
    /\ (ret.op = "ChartSet.SetSize" /\ Len(cs.charts) >= 1)
          => \A i \in 1..Len(cs.charts) :
                /\ cs.charts[i].width = cs.width
                /\ cs.charts[i].height = TruncQuot(cs.height, Len(cs.charts))
    /\ ThreeChartsSized

\* C8 witness: three charts just sized with a height that leaves a remainder
C8_Witness ==
    /\ ret.op = "ChartSet.SetSize"
    /\ Len(cs.charts) = 3
    /\ cs.height = 31
    /\ cs.charts[3].height = 10

\* the rendered blocks of the member charts, in order
Blocks(set) == [i \in 1..Len(set.charts) |-> ChartRender(set.charts[i])]

RECURSIVE LinesFrom(_, _, _)
\* the lines of blocks i.. in order, `between` inserted between two blocks
LinesFrom(blocks, between, i) ==
    IF i > Len(blocks) THEN <<>>
    ELSE (IF i > 1 THEN between ELSE <<>>) \o SplitLines(blocks[i])
         \o LinesFrom(blocks, between, i + 1)

\* the output `out` of a set render is the blocks in order, the lines of
\* `between` lying between two blocks and nothing before or after; it is
\* empty for no chart, and fails exactly when a member's render fails
Composed(set, out, between) ==
    LET blocks == Blocks(set)
    IN IF \E i \in 1..Len(blocks) : IsPanic(blocks[i]) THEN IsPanic(out)
       ELSE IF Len(blocks) = 0 THEN out = <<>>
       ELSE /\ ~IsPanic(out)
            /\ SplitLines(out) = LinesFrom(blocks, between, 1)

\* the charts present keep their places in the set
OrderKept ==
    /\ Len(cs'.charts) >= Len(cs.charts)
    /\ \A i \in 1..Len(cs.charts) :
          /\ cs'.charts[i].title = cs.charts[i].title
          /\ cs'.charts[i].unit = cs.charts[i].unit
          /\ cs'.charts[i].color = cs.charts[i].color

\* C9 as claimed: the output of ChartSet.Render is the charts' blocks in
\* AddChart order with exactly one blank line between the last line of one
\* chart and the first line of the next, nothing before the first and nothing
\* after the last, and empty for zero charts.
C9_Original == ret.op = "ChartSet.Render" => Composed(cs, ret.out, << <<>> >>)

\* C9 amended: the blocks in AddChart order, separated by one newline
\* character: the first line of a chart is the line directly after the last
\* line of the chart before it, with no blank line between; nothing before
\* the first block, nothing after the last, empty for zero charts; and no
\* operation reorders or removes the charts of the set.
C9_RenderComposition ==
    /\ [](ret.op = "ChartSet.Render" => Composed(cs, ret.out, <<>>))
    /\ [][OrderKept]_vars

\* C9 witness: a set of three charts of two kinds rendered at full width,
\* one of them holding data
C9_Witness ==
    /\ ret.op = "ChartSet.Render"
    /\ Len(cs.charts) = 3
    /\ cs.charts[1].title # cs.charts[2].title
    /\ cs.charts[1].width = 100
    /\ Len(cs.charts[2].data.values) = 1
    /\ ~IsPanic(ret.out)

\* C10 as claimed: the buffer never exceeds its capacity at any instant, and
\* a Render interleaved with an Add on the same chart never reads more values
\* than the capacity, nor timestamps and values of different lengths.
C10_CapacityAtAllTimes ==
    /\ Len(TheChart.data.values) <= TheChart.data.maxSize
    /\ \A g \in Goroutines :
          /\ proc[g].seen[2] <= TheChart.data.maxSize
          /\ proc[g].seen[1] = proc[g].seen[2]

\* the goroutines that are inside ChartData.Add on the chart
InsideAdd == {g \in Goroutines : proc[g].pc # "idle"}

\* C11 as claimed: the chart operations of the goroutine of Application.Run
\* and of the goroutine of processEvents never overlap: at no instant are two
\* goroutines inside an AddValue on the chart, and a Render never runs while
\* another goroutine is inside an AddValue (it reads no half-appended buffer).
C11_SerializedAccess ==
    /\ Cardinality(InsideAdd) <= 1
    /\ \A g \in Goroutines : proc[g].seen[1] = proc[g].seen[2]

\* a render of c that drew the chart body from data without failing
DrewBody(c) ==
    /\ c.width >= YAxisLabelWidth
    /\ c.height >= 1
    /\ Len(c.data.values) >= 1

\* the y-axis label of plot row r (1-based, top first) of the block `out`:
\* the eight characters after the opening style tag of line r + 1
RowLabel(out, r) == SubSeq(SplitLines(out)[r + 1], 2, 9)

\* C12 as claimed: a Render of a chart with manual scale uses bounds with
\* upper > lower, also after SetScale(min, max) with min >= max (the
\* degenerate-range fallback widens them), so that the top and the bottom
\* y-axis label differ; with min < max the bounds are the given ones.
C12_ManualScaleFallback ==
    (ret.op = "Chart.Render" /\ ~TheChart.autoScale /\ DrewBody(TheChart))
        => LET b == calculateBounds(TheChart)
           IN /\ b[2] > b[1]
              /\ RowLabel(ret.out, 1) # RowLabel(ret.out, calculateChartHeight(TheChart))
              /\ (TheChart.minValue < TheChart.maxValue
                     => b = <<TheChart.minValue, TheChart.maxValue>>)

----------------------------------------------------------------------------
(* The time-label row of a rendered block                                  *)

\* the last line of the block `out`
TimeRow(out) == SplitLines(out)[Len(SplitLines(out))]

\* the start label: the eight characters after the gutter and the second tag
LeftLabel(row) == SubSeq(row, 14, 21)

\* the row ends with a second label: a style tag, eight characters, the closing tag
HasRightLabel(row) == Len(row) >= 31 /\ row[Len(row) - 9] = "[gray]"

RightLabel(row) == SubSeq(row, Len(row) - 8, Len(row) - 1)

\* the row holds a duration in parentheses
HasDuration(row) == \E i \in 1..Len(row) : row[i] = "("

DurationShown(row) ==
    SubSeq(row, (CHOOSE i \in 1..Len(row) : row[i] = "(") + 1,
                (CHOOSE j \in 1..Len(row) : row[j] = ")") - 1)

\* the timestamp of the sample drawn in column 0 of the plot of c
OldestVisibleTime(c) ==
    c.data.timestamps[Max2(0, Len(c.data.values) - (c.width - YAxisLabelWidth)) + 1]

NewestTime(c) == c.data.timestamps[Len(c.data.timestamps)]

\* C13 as claimed: in every render with data the left time label is the
\* timestamp of the oldest visible sample (column 0 of the plot), the right
\* label, where the row has one, that of the newest sample, and the duration,
\* where shown, the time between those two, also when the buffer holds more
\* samples than the plot has columns.
C13_TimeLabelWindow ==
    (ret.op = "Chart.Render" /\ HasPlot(TheChart))
        => LET row == TimeRow(ret.out)
           IN /\ LeftLabel(row) = FormatClock(OldestVisibleTime(TheChart))
              /\ HasRightLabel(row) => RightLabel(row) = FormatClock(NewestTime(TheChart))
              /\ HasDuration(row)
                    => DurationShown(row)
                         = formatChartDuration(NewestTime(TheChart)
                                               - OldestVisibleTime(TheChart))

\* the narrowest chart whose time row has room for the end label (spacing > 0),
\* and the narrowest with room for the duration (spacing / 2 > 4)
EndLabelWidth == YAxisLabelWidth + 3 * 8 + 1

DurationWidth == YAxisLabelWidth + 3 * 8 + 10

\* a render of c that drew the time-label row from at least two samples
DrewTwoSamples(c) ==
    /\ c.width >= YAxisLabelWidth
    /\ c.height >= 1
    /\ Len(c.data.timestamps) >= 2

PlotRowLines(out) ==
    {k \in 1..Len(SplitLines(out)) :
        \E j \in 1..Len(SplitLines(out)[k]) : SplitLines(out)[k][j] = BoxTeeLeft}

\* a plot row: style tag, 8 label columns, blank, tick, closing tag, blank (the
\* 11-column gutter), then a style tag, `columns` plot cells and a closing tag
IsPlotRow(line, columns) ==
    /\ Len(line) = 13 + 1 + columns + 1
    /\ line[11] = BoxTeeLeft
    /\ line[13] = " "
    /\ \A j \in 15..(14 + columns) : line[j] \in PointGlyphs \cup {" ", BoxVertical, MiddleDot}

\* C15 as claimed: every Render at width >= 11 and height >= 1, of a buffer
\* with data or of an empty one, emits exactly max(height - 4, 3) plot rows,
\* each of exactly width - 11 plot columns after the 11-column gutter.
C15_PlotFieldGeometry ==
    (ret.op = "Chart.Render" /\ TheChart.width >= YAxisLabelWidth /\ TheChart.height >= 1)
        => /\ ~IsPanic(ret.out)
           /\ Cardinality(PlotRowLines(ret.out))
                = Max2(TheChart.height - ChartHeightReserve, MinChartHeight)
           /\ \A k \in PlotRowLines(ret.out) :
                 IsPlotRow(SplitLines(ret.out)[k], TheChart.width - YAxisLabelWidth)

\* the tview style markers, which take no column of the terminal
StyleTags ==
    {"[-]", "[gray]", "[cyan]", "[green]", "[yellow]", "[white]", "[green:b]", "[yellow:b]",
     "[cyan:b]", "[white:b]"}

\* the characters of a line, style markers left out
RowChars(line) == SelectSeq(line, LAMBDA t : t \notin StyleTags)

\* the title row of the block `out`
TitleRowOf(out) == RowChars(SplitLines(out)[1])

Rule(n) == [i \in 1..n |-> BoxHorizontal]

\* the row is as wide as `width` at most; a padded title that fits in `width`
\* characters is centred between rules filling the row, one that does not fit
\* is cut to a proper prefix of the title
TitleFits(title, width, row) ==
    LET padded == <<" ">> \o title \o <<" ">>
        room == width - Len(padded)
    IN /\ Len(row) <= width
       /\ room >= 0 => row = Rule(room \div 2) \o padded \o Rule(room - room \div 2)
       /\ room < 0
             => \E k \in 0..(Len(title) - 1) :
                   SelectSeq(row, LAMBDA t : t # BoxHorizontal)
                     = SubSeq(title, 1, k) \o <<" ">>

\* C16 as claimed: for every title and every width >= 2 the title row is at
\* most width characters wide; a space-padded title that fits is centred in a
\* row exactly width wide (left rule (width - len) div 2, right rule the
\* rest), and one that does not fit is truncated.  The row is that of
\* renderTitle, and the first line of a rendered chart of width >= 11.
C16_TitleBannerFits ==
    (\/ ret.op = "Chart.renderTitle" /\ TheChart.width >= 2
     \/ ret.op = "Chart.Render" /\ TheChart.width >= YAxisLabelWidth /\ TheChart.height >= 1)
        => /\ ~IsPanic(ret.out)
           /\ TitleFits(TheChart.title, TheChart.width, TitleRowOf(ret.out))

----------------------------------------------------------------------------
(* Formatted numbers                                                       *)

DigitTokens == {"0", "1", "2", "3", "4", "5", "6", "7", "8", "9"}

RECURSIVE DigitsValue(_)
\* the number a sequence of digit tokens denotes
DigitsValue(s) ==
    IF Len(s) = 0 THEN 0
    ELSE 10 * DigitsValue(SubSeq(s, 1, Len(s) - 1))
         + (CHOOSE d \in 0..9 : DigitChar(d) = s[Len(s)])

\* the digits after the decimal point of the numeral np (0 without a point)
DecimalsShown(np) ==
    IF \E i \in 1..Len(np) : np[i] = "."
    THEN Len(np) - (CHOOSE i \in 1..Len(np) : np[i] = ".")
    ELSE 0

\* the numeral np with d decimals is num/den rounded to d decimals, a tie
\* going to the even last digit, with a minus sign exactly for num < 0
RoundedTo(np, num, den, d) ==
    LET shown == DigitsValue(SelectSeq(np, LAMBDA t : t \in DigitTokens))
        error == Abs(shown * den - Abs(num) * Pow10(d))
    IN /\ \A i \in 1..Len(np) : np[i] \in DigitTokens \cup {".", "-"}
       /\ DecimalsShown(np) = d
       /\ 2 * error <= den
       /\ 2 * error = den => shown % 2 = 0
       /\ (num < 0) <=> (np[1] = "-")

\* the result `out` of formatValue(num/den) with unit `unit`: the decimals
\* follow the magnitude, the numeral is rounded to them, the unit is appended
Formatted(out, num, den, unit) ==
    LET d == IF Abs(num) >= 1000 * den THEN 0
             ELSE IF Abs(num) >= 10 * den THEN 1
             ELSE IF Abs(num) >= den THEN 2
             ELSE 3
    IN /\ Len(out) > Len(unit)
       /\ SubSeq(out, Len(out) - Len(unit) + 1, Len(out)) = unit
       /\ RoundedTo(SubSeq(out, 1, Len(out) - Len(unit)), num, den, d)

\* formatValue(num/den) of a chart with unit "W" returned `text`
Formats(num, den, text) ==
    (ret.op = "Chart.formatValue" /\ ret.arg = <<num, den>> /\ TheChart.unit = <<"W">>)
        => ret.out = text

\* C17 as claimed: the examples 1234.5 -> "1235W", 12.34 -> "12.3W",
\* 1.234 -> "1.23W" and 0.1234 -> "0.123W" for unit "W".
C17_Original ==
    /\ Formats(12345, 10, <<"1", "2", "3", "5", "W">>)
    /\ Formats(1234, 100, <<"1", "2", ".", "3", "W">>)
    /\ Formats(1234, 1000, <<"1", ".", "2", "3", "W">>)
    /\ Formats(1234, 10000, <<"0", ".", "1", "2", "3", "W">>)

\* C17 amended: formatValue shows 0 decimals for |v| >= 1000, 1 for >= 10,
\* 2 for >= 1 and 3 otherwise, rounds to the nearest numeral of that
\* precision, a tie going to the even digit, and appends the unit: for unit
\* "W", 1234.5 -> "1234W" (1235.5 -> "1236W"), 12.34 -> "12.3W",
\* 1.234 -> "1.23W", 0.1234 -> "0.123W".
C17_ValueFormatting ==
    /\ ret.op = "Chart.formatValue"
          => Formatted(ret.out, ret.arg[1], ret.arg[2], TheChart.unit)
    /\ Formats(12345, 10, <<"1", "2", "3", "4", "W">>)
    /\ Formats(12355, 10, <<"1", "2", "3", "6", "W">>)
    /\ Formats(1234, 100, <<"1", "2", ".", "3", "W">>)
    /\ Formats(1234, 1000, <<"1", ".", "2", "3", "W">>)
    /\ Formats(1234, 10000, <<"0", ".", "1", "2", "3", "W">>)

\* C17 witness: formatValue(1234.5) of a chart with unit "W" has returned
C17_Witness ==
    /\ ret.op = "Chart.formatValue"
    /\ ret.arg = <<12345, 10>>
    /\ TheChart.unit = <<"W">>
    /\ Len(ret.out) = 5

\* the buffer of c holds one or more samples, all of the same value
FlatBuffer(c) ==
    /\ Len(c.data.values) >= 1
    /\ \A i \in 1..Len(c.data.values) : c.data.values[i] = c.data.values[1]

\* the rows (0-based) of the plot of `out` that hold a point glyph
MarkedRows(c, out) ==
    {y \in 0..(calculateChartHeight(c) - 1) :
        \E x \in 1..(c.width - YAxisLabelWidth) : PlotCells(c, out)[y + 1][x] \in PointGlyphs}

SetSizeOnEmpty == ret'.op = "ChartSet.SetSize" /\ Len(cs.charts) = 0

\* C19 as claimed: ChartSet.SetSize on a set with zero charts raises no error
\* and leaves the state of the set unchanged.
C19_Original == [][SetSizeOnEmpty => cs' = cs]_vars

\* C19 amended: ChartSet.SetSize(w, h) on a set with zero charts raises no
\* error (nothing is divided by the chart count) and changes no chart: the
\* set still has none and renders as the empty text.  It does record w and h
\* as the width and height of the set.
C19_SetSizeOnEmptySet ==
    [][SetSizeOnEmpty
         => /\ cs'.charts = <<>>
            /\ <<cs'.width, cs'.height>> \in SetSizes
            /\ ChartSetRender(cs') = <<>>
            /\ ret'.out = <<>>
            /\ hist' = hist]_vars

\* C19 witness: a set without charts has been sized 100 by 31
C19_Witness ==
    /\ ret.op = "ChartSet.SetSize"
    /\ Len(cs.charts) = 0
    /\ cs.width = 100
    /\ cs.height = 31

----------------------------------------------------------------------------
(* Ticks                                                                   *)

\* a step that handles one EventTick
TickStep == proc'.ticks = proc.ticks + 1

\* chart i of the set received exactly one value in the step: its buffer is
\* the old buffer with one sample appended
OneAdded(i) ==
    /\ Len(cs'.charts[i].data.values) = Len(cs.charts[i].data.values) + 1
    /\ SubSeq(cs'.charts[i].data.values, 1, Len(cs.charts[i].data.values))
         = cs.charts[i].data.values
    /\ Len(hist'[i]) = Len(hist[i]) + 1

\* the calls of the step: one AddValue on each chart, then one SetSize and one
\* Render on the set, whose text is the result
AddedSizedRendered ==
    /\ \A i \in 1..3 : OneAdded(i)
    /\ ret'.calls = <<"voltageChart.AddValue", "powerChart.AddValue", "chargeChart.AddValue",
                      "chartSet.SetSize", "chartSet.Render">>
    /\ ret'.out = ChartSetRender(cs')

\* C20 as claimed: on every EventTick, whether or not the battery read of
\* that tick succeeds, each of the three charts receives exactly one
\* AddValue, and afterwards the chart set is sized and rendered exactly once.
C20_Original == [][TickStep => AddedSizedRendered]_vars

\* C20 amended: on every EventTick whose battery read succeeds each of the
\* three charts receives exactly one AddValue and afterwards the chart set is
\* sized once and Render is called on it once; on an EventTick whose read
\* fails or finds no battery no chart receives a value and the chart set is
\* neither sized nor rendered.
C20_OneSamplePerTick ==
    [][TickStep
         => IF proc'.manager.lastError
            THEN /\ cs' = cs
                 /\ hist' = hist
                 /\ ret'.calls = <<>>
            ELSE AddedSizedRendered]_vars

\* C20 witness: a tick whose read succeeded has been handled after a tick
\* whose read failed: two ticks, one sample more than at the start
C20_Witness ==
    /\ ret.op = "EventTick"
    /\ proc.ticks = 2
    /\ ~proc.forced
    /\ ~proc.manager.lastError
    /\ Len(ret.calls) = 5
    /\ Len(hist[1]) = 2
    /\ ~IsPanic(ret.out)

----------------------------------------------------------------------------
(* The event channel (internal/app): the keyboard handler and the tick     *)
(* loop send into a buffered channel without blocking, processEvents       *)
(* receives.  Here proc holds the channel, its capacity and whether the    *)
(* tview application has been stopped.                                     *)

\* the keys of the input capture, and one key it does not handle
Keys ==
    {"q", "Q", "Esc", "CtrlC", "Tab", "Right", "Backtab", "Left", "h", "H", "l", "L", "x"}

\* the capacities of the event channel (EventChannelBufferSize is a
\* constant of the program; every capacity drawn here is a possible value)
EventCapacities == {1, 2, 3}

\* setupKeyboardHandlers: the type of the event the input capture sends for
\* a key ("none": nothing is sent, the key is handed on to tview)
KeyEvent(k) ==
    IF k \in {"Esc", "CtrlC"} THEN "EventExit"
    ELSE IF k \in {"Tab", "Right"} THEN "EventNextTab"
    ELSE IF k \in {"Backtab", "Left"} THEN "EventPreviousTab"
    ELSE IF k \in {"q", "Q"} THEN "EventExit"
    ELSE IF k \in {"h", "H"} THEN "EventPreviousTab"
    ELSE IF k \in {"l", "L"} THEN "EventNextTab"
    ELSE "none"

\* sendEvent, and the send of tickLoop: select with a default case, the
\* event is dropped when the channel is full
sendEvent(chan, cap, event) ==
    IF Len(chan) < cap THEN Append(chan, event) ELSE chan

\* NewEventManager and Start: an empty channel, the application running
InitEvents ==
    /\ \E cap \in EventCapacities :
          proc = [cap |-> cap, chan |-> <<>>, stopped |-> FALSE, quitPressed |-> FALSE]
    /\ cs = <<>>
    /\ now = StartTime
    /\ hist = <<>>
    /\ ret = NoReturn

\* the input capture is called with key k
KeyPress(k) ==
    /\ ~proc.stopped
    /\ proc' = [proc EXCEPT
                  !.chan = IF KeyEvent(k) = "none" THEN @
                           ELSE sendEvent(@, proc.cap, KeyEvent(k)),
                  !.quitPressed = @ \/ KeyEvent(k) = "EventExit"]
    /\ ret' = Void("KeyPress")
    /\ UNCHANGED <<cs, now, hist>>

\* tickLoop: the ticker fires
TickSend ==
    /\ ~proc.stopped
    /\ proc' = [proc EXCEPT !.chan = sendEvent(@, proc.cap, "EventTick")]
    /\ ret' = Void("tickLoop")
    /\ UNCHANGED <<cs, now, hist>>

\* processEvents: one iteration of the range loop over the channel
ProcessEvent ==
    /\ ~proc.stopped
    /\ Len(proc.chan) > 0
    /\ proc' = [proc EXCEPT !.chan = Tail(@),
                            !.stopped = (Head(proc.chan) = "EventExit")]
    /\ ret' = Void(Head(proc.chan))
    /\ UNCHANGED <<cs, now, hist>>

NextEvents ==
    \/ \E k \in Keys : KeyPress(k)
    \/ TickSend
    \/ ProcessEvent

\* processEvents runs for as long as the application does: an event in the
\* channel is received
SpecEventsFair == InitEvents /\ [][NextEvents]_vars /\ WF_vars(ProcessEvent)

\* C21: Quit always works: once a quit key (q, Q, Esc, Ctrl+C) has been
\* pressed, processEvents eventually handles an EventExit and stops the
\* tview application, whatever is queued in the event channel at the moment
\* of the key press.
C21_QuitAlwaysWorks == proc.quitPressed ~> proc.stopped

----------------------------------------------------------------------------
(* The battery manager under concurrent calls: one goroutine calls          *)
(* Manager.Update, the others call GetAll, Get and Count and may write to   *)
(* the Info values they were handed.  A statement is one step.  Here proc   *)
(* holds the manager (its battery list is a list of addresses), the heap of *)
(* Info values, the state of the RWMutex and each goroutine's position;     *)
(* hist lists the battery lists stored so far, the empty list of NewManager *)
(* first.                                                                   *)

\* the goroutines that read: each makes one call
Readers == {1, 2}

\* what battery.GetAll() returns to the updating goroutine
RaceReads ==
    {[err |-> TRUE, batteries |-> <<>>],
     [err |-> FALSE,
      batteries |-> <<[State |-> "Charging", Voltage |-> 12 * Scale,
                       ChargeRate |-> 20000 * Scale, Current |-> 45, Full |-> 60]>>],
     [err |-> FALSE,
      batteries |-> <<[State |-> "Discharging", Voltage |-> 11 * Scale,
                       ChargeRate |-> 15000 * Scale, Current |-> 30, Full |-> 60],
                      [State |-> "Full", Voltage |-> 12 * Scale,
                       ChargeRate |-> 0, Current |-> 50, Full |-> 50]>>]}

\* the most calls of Update
MaxUpdates == 2

\* the indexes passed to Get
GetIndexes == {-1, 0, 1}

\* what stands for the value behind a nil pointer (address 0)
NilInfo ==
    [Index |-> -1, State |-> "nil", Current |-> 0, Full |-> 0, ChargeRate |-> 0,
     Voltage |-> 0]

\* the values behind a list of addresses
Deref(heap, addrs) ==
    [i \in 1..Len(addrs) |-> IF addrs[i] = 0 THEN NilInfo ELSE heap[addrs[i]]] \o <<>>

\* handing out the stored pointer instead of `batCopy := *bat; &batCopy`
copyInfoShared(heap, addr) ==
    [heap |-> heap, addr |-> addr]

\* `batCopy := *bat; &batCopy`: a new Info on the heap with the same value
copyInfo(heap, addr) ==
    [heap |-> Append(heap, heap[addr]), addr |-> Len(heap) + 1]

\* a goroutine that is not inside a call
IdleReader ==
    [pc |-> "idle", op |-> "none", index |-> 0, n |-> 0, rng |-> <<>>, result |-> <<>>,
     k |-> 0, from |-> 0, got |-> <<>>, mutated |-> FALSE]

\* NewManager; no goroutine is inside a call
InitManagerRace ==
    /\ proc = [m |-> NewManager, heap |-> <<>>, writer |-> FALSE, readers |-> {},
               upd |-> [pc |-> "idle", read |-> [err |-> TRUE, batteries |-> <<>>],
                        infos |-> <<>>, n |-> 0],
               rd |-> [g \in Readers |-> IdleReader]]
    /\ hist = <<<<>>>>
    /\ cs = <<>>
    /\ now = StartTime
    /\ ret = [op |-> "none", out |-> <<>>, err |-> FALSE, panic |-> FALSE, from |-> 0,
              index |-> 0, len |-> 0]

\* Update, line 33: battery.GetAll() returns `read`
Update33(read) ==
    /\ proc.upd.pc = "idle"
    /\ proc.upd.n < MaxUpdates
    /\ proc' = [proc EXCEPT !.upd.read = read,
                            !.upd.pc = IF read.err \/ Len(read.batteries) = 0
                                       THEN "setLastError134" ELSE "Update43"]
    /\ UNCHANGED <<cs, now, hist, ret>>

\* setLastError: m.lastError = err
SetLastError135 ==
    /\ proc.upd.pc = "setLastError135"
    /\ proc' = [proc EXCEPT !.m = setLastError(@), !.upd.pc = "setLastError136"]
    /\ UNCHANGED <<cs, now, hist, ret>>

\* Update, line 43: infos := m.convertBatteriesToInfo(batteries)
Update43 ==
    /\ proc.upd.pc = "Update43"
    /\ LET infos == convertBatteriesToInfo(proc.upd.read.batteries)
       IN proc' = [proc EXCEPT
                     !.heap = @ \o infos,
                     !.upd.infos = [i \in 1..Len(infos) |-> Len(proc.heap) + i] \o <<>>,
                     !.upd.pc = "Update45"]
    /\ UNCHANGED <<cs, now, hist, ret>>

\* m.mu.Lock() of Update (line 45) and of setLastError (line 134)
UpdateLock ==
    /\ proc.upd.pc \in {"Update45", "setLastError134"}
    /\ ~proc.writer /\ proc.readers = {}
    /\ proc' = [proc EXCEPT !.writer = TRUE,
                            !.upd.pc = IF proc.upd.pc = "Update45" THEN "Update46"
                                       ELSE "setLastError135"]
    /\ UNCHANGED <<cs, now, hist, ret>>

\* Update, line 46: m.batteries = infos
Update46 ==
    /\ proc.upd.pc = "Update46"
    /\ proc' = [proc EXCEPT !.m.batteries = proc.upd.infos, !.upd.pc = "Update47"]
    /\ hist' = Append(hist, Deref(proc.heap, proc.upd.infos))
    /\ UNCHANGED <<cs, now, ret>>

\* Update, line 47: m.lastError = nil
Update47 ==
    /\ proc.upd.pc = "Update47"
    /\ proc' = [proc EXCEPT !.m.lastError = FALSE, !.upd.pc = "Update48"]
    /\ UNCHANGED <<cs, now, hist, ret>>

\* m.mu.Unlock() of Update (line 48) and of setLastError (line 136); Update
\* returns
UpdateUnlock ==
    /\ proc.upd.pc \in {"Update48", "setLastError136"}
    /\ proc' = [proc EXCEPT !.writer = FALSE, !.upd.pc = "idle", !.upd.n = @ + 1,
                            !.upd.infos = <<>>]
    /\ UNCHANGED <<cs, now, hist, ret>>

\* goroutine g calls GetAll, Get(index) or Count
ReaderCall(g, op, index) ==
    /\ proc.rd[g].pc = "idle"
    /\ proc' = [proc EXCEPT !.rd[g] = [IdleReader EXCEPT !.pc = "RLock", !.op = op,
                                          !.index = index, !.from = Len(hist)]]
    /\ UNCHANGED <<cs, now, hist, ret>>

\* m.mu.RLock() of GetAll, Get and Count
ReaderRLock(g) ==
    /\ proc.rd[g].pc = "RLock"
    /\ ~proc.writer
    /\ proc' = [proc EXCEPT !.readers = @ \cup {g},
                            !.rd[g].pc = IF proc.rd[g].op = "GetAll" THEN "GetAll92"
                                         ELSE IF proc.rd[g].op = "Get" THEN "Get112"
                                         ELSE "Count129"]
    /\ UNCHANGED <<cs, now, hist>>
    /\ UNCHANGED ret

\* the return of goroutine g's call, with the deferred m.mu.RUnlock(): the
\* goroutine holds `result`, the heap is `heap`
ReaderReturn(g, heap, result, err, panic, len) ==
    /\ proc' = [proc EXCEPT !.heap = heap, !.readers = @ \ {g},
                            !.rd[g].pc = "done", !.rd[g].result = result,
                            !.rd[g].got = Deref(heap, result)]
    /\ ret' = [op |-> proc.rd[g].op, out |-> Deref(heap, result), err |-> err,
               panic |-> panic, from |-> proc.rd[g].from, index |-> proc.rd[g].index,
               len |-> len]
    /\ UNCHANGED <<cs, now, hist>>

\* GetAll, line 92, and Get, line 112:
\* if m.lastError != nil { return nil, m.lastError }
ReaderLastError(g) ==
    /\ proc.rd[g].pc \in {"GetAll92", "Get112"}
    /\ IF proc.m.lastError
       THEN ReaderReturn(g, proc.heap, <<>>, TRUE, FALSE, 0)
       ELSE /\ proc' = [proc EXCEPT !.rd[g].pc = IF proc.rd[g].pc = "GetAll92"
                                                 THEN "GetAll97" ELSE "Get116"]
            /\ UNCHANGED <<cs, now, hist, ret>>

\* GetAll, line 97: result := make([]*Info, len(m.batteries))
GetAll97(g) ==
    /\ proc.rd[g].pc = "GetAll97"
    /\ proc' = [proc EXCEPT !.rd[g].n = Len(proc.m.batteries),
                            !.rd[g].result = [i \in 1..Len(proc.m.batteries) |-> 0]
                                                \o <<>>,
                            !.rd[g].pc = "GetAll98"]
    /\ UNCHANGED <<cs, now, hist, ret>>

\* GetAll, line 98: the range expression m.batteries is evaluated
GetAll98(g) ==
    /\ proc.rd[g].pc = "GetAll98"
    /\ proc' = [proc EXCEPT !.rd[g].rng = proc.m.batteries, !.rd[g].k = 1,
                            !.rd[g].pc = "GetAll100"]
    /\ UNCHANGED <<cs, now, hist, ret>>

\* GetAll, lines 98-104: one iteration of the loop, or the return after it
GetAll100(g) ==
    /\ proc.rd[g].pc = "GetAll100"
    /\ LET r == proc.rd[g]
       IN IF r.k > Len(r.rng)
          THEN ReaderReturn(g, proc.heap, r.result, FALSE, FALSE, 0)
          ELSE IF r.k > r.n
          THEN ReaderReturn(g, proc.heap, <<>>, FALSE, TRUE, 0)
          ELSE LET c == copyInfo(proc.heap, r.rng[r.k])
               IN /\ proc' = [proc EXCEPT !.heap = c.heap,
                                          !.rd[g].result[r.k] = c.addr,
                                          !.rd[g].k = r.k + 1]
                  /\ UNCHANGED <<cs, now, hist, ret>>

\* Get, line 116: if index < 0 || index >= len(m.batteries) { return nil, ErrBatteryNotFound }
Get116(g) ==
    /\ proc.rd[g].pc = "Get116"
    /\ IF proc.rd[g].index < 0 \/ proc.rd[g].index >= Len(proc.m.batteries)
       THEN ReaderReturn(g, proc.heap, <<>>, TRUE, FALSE, 0)
       ELSE /\ proc' = [proc EXCEPT !.rd[g].pc = "Get121"]
            /\ UNCHANGED <<cs, now, hist, ret>>

\* Get, lines 121-122: batCopy := *m.batteries[index]; return &batCopy, nil
Get121(g) ==
    /\ proc.rd[g].pc = "Get121"
    /\ IF proc.rd[g].index >= Len(proc.m.batteries)
       THEN ReaderReturn(g, proc.heap, <<>>, FALSE, TRUE, 0)
       ELSE LET c == copyInfo(proc.heap, proc.m.batteries[proc.rd[g].index + 1])
            IN ReaderReturn(g, c.heap, <<c.addr>>, FALSE, FALSE, 0)

\* Count, line 129: return len(m.batteries)
Count129(g) ==
    /\ proc.rd[g].pc = "Count129"
    /\ ReaderReturn(g, proc.heap, <<>>, FALSE, FALSE, Len(proc.m.batteries))

\* goroutine g writes to the j-th Info it was handed (its ChargeRate)
Mutate(g, j) ==
    /\ proc.rd[g].pc = "done"
    /\ ~proc.rd[g].mutated
    /\ j \in 1..Len(proc.rd[g].result)
    /\ proc' = [proc EXCEPT !.heap[proc.rd[g].result[j]].ChargeRate = 7 * Scale,
                            !.rd[g].got[j].ChargeRate = 7 * Scale,
                            !.rd[g].mutated = TRUE]
    /\ UNCHANGED <<cs, now, hist, ret>>

NextManagerRace ==
    \/ \E read \in RaceReads : Update33(read)
    \/ SetLastError135
    \/ Update43
    \/ UpdateLock
    \/ Update46
    \/ Update47
    \/ UpdateUnlock
    \/ \E g \in Readers, op \in {"GetAll", "Count"} : ReaderCall(g, op, 0)
    \/ \E g \in Readers, index \in GetIndexes : ReaderCall(g, "Get", index)
    \/ \E g \in Readers : ReaderRLock(g)
    \/ \E g \in Readers : ReaderLastError(g)
    \/ \E g \in Readers : GetAll97(g)
    \/ \E g \in Readers : GetAll98(g)
    \/ \E g \in Readers : GetAll100(g)
    \/ \E g \in Readers : Get116(g)
    \/ \E g \in Readers : Get121(g)
    \/ \E g \in Readers : Count129(g)
    \/ \E g \in Readers, j \in 1..2 : Mutate(g, j)

SpecManagerRace == InitManagerRace /\ [][NextManagerRace]_vars

\* the battery lists stored between the call and the return of the last
\* reading call: the list of the latest successful Update at the call, and
\* those of the Updates that succeeded during it
ListsDuringCall == {hist[j] : j \in (IF ret.from = 0 THEN {} ELSE ret.from..Len(hist))}

\* C22: Thread-safe battery data: a GetAll that returns without error returns
\* the complete battery list of a successful Update that was the latest at
\* some moment of the call, a Get one battery of such a list and Count its
\* length, never a partly built list; GetAll and Get fail only with the
\* error of the manager; the manager holds the list of its latest successful
\* Update whatever the readers write to the Info values they were handed,
\* and a reader holds what it was returned whatever the other goroutines do.
C22_ThreadSafeBatteryData ==
    /\ ~ret.panic
    /\ (ret.op = "GetAll" /\ ~ret.err) => ret.out \in ListsDuringCall
    /\ (ret.op = "Get" /\ ~ret.err)
          => \E l \in ListsDuringCall :
                /\ ret.index + 1 \in 1..Len(l)
                /\ ret.out = <<l[ret.index + 1]>>
    /\ ret.op = "Count" => \E l \in ListsDuringCall : ret.len = Len(l)
    /\ Deref(proc.heap, proc.m.batteries) = hist[Len(hist)]
    /\ \A g \in Readers :
          proc.rd[g].pc = "done" => Deref(proc.heap, proc.rd[g].result) = proc.rd[g].got

\* a GetAll that overlapped a successful Update has returned a battery list
\* while the other reader has written to an Info it holds and an Update is
\* under way
C22_Witness ==
    /\ ret.op = "GetAll" /\ ~ret.err /\ Len(ret.out) = 2
    /\ ret.from < Len(hist)
    /\ \E g \in Readers : proc.rd[g].mutated /\ Len(proc.rd[g].got) > 0
    /\ proc.upd.pc = "Update45"

----------------------------------------------------------------------------
(* Helpers called on their own: getHealthColor with every half percent,     *)
(* and valueToY with values inside and outside the bounds, bounds in and    *)
(* out of order, and every plot height from 1 to MaxRowHeight.              *)

\* ColorThresholdsHealth (percent)
ColorThresholdsHealth ==
    [Excellent |-> 80 * Scale, Good |-> 60 * Scale, Warning |-> 40 * Scale, Critical |-> 0]

\* GetColorByThreshold
GetColorByThreshold(percent, thresholds) ==
    IF percent >= thresholds.Excellent THEN "green"
    ELSE IF percent >= thresholds.Good THEN "yellow"
    ELSE IF percent >= thresholds.Warning THEN "orange"
    ELSE "red"

\* getHealthColor
getHealthColor(percent) == GetColorByThreshold(percent, ColorThresholdsHealth)

\* the percentages getHealthColor is called with: every half percent from -1 to 101
Percents == {k * (Scale \div 2) : k \in -2..202}

\* the values mapped by valueToY
RowValues ==
    {-2 * Scale, -Scale, 0, Scale \div 2, Scale, Scale + 10, Scale + 20, Scale + 30,
     2 * Scale, 5 * Scale}

\* the <<min, max>> pairs of valueToY
RowBounds ==
    {<<0, 2 * Scale>>, <<Scale, Scale>>, <<2 * Scale, 0>>, <<Scale \div 2, Scale + 20>>,
     <<-Scale - 10, Scale + 40>>, <<Scale, Scale + 30>>}

\* the largest plot height
MaxRowHeight == 8

InitCalls ==
    /\ cs = <<>>
    /\ now = StartTime
    /\ hist = <<>>
    /\ ret = [op |-> "none", out |-> 0, arg |-> <<>>]
    /\ proc = <<>>

\* getHealthColor(percent)
CallGetHealthColor(percent) ==
    /\ ret' = [op |-> "getHealthColor", out |-> getHealthColor(percent), arg |-> <<percent>>]
    /\ UNCHANGED <<cs, now, hist, envVars>>

\* c.valueToY(value, min, max, height)
CallValueToY(value, min, max, height) ==
    /\ ret' = [op |-> "Chart.valueToY", out |-> valueToY(value, min, max, height),
               arg |-> <<value, min, max, height>>]
    /\ UNCHANGED <<cs, now, hist, envVars>>

NextCalls ==
    \/ \E percent \in Percents : CallGetHealthColor(percent)
    \/ \E value \in RowValues, b \in RowBounds, height \in 1..MaxRowHeight :
          CallValueToY(value, b[1], b[2], height)

SpecCalls == InitCalls /\ [][NextCalls]_vars

\* C23: Health colour coding: getHealthColor(p) returns "yellow" for every p
\* with 50 <= p < 80 and "green" for every p > 80.
C23_HealthColourCoding ==
    ret.op = "getHealthColor"
       => /\ (50 * Scale <= ret.arg[1] /\ ret.arg[1] < 80 * Scale) => ret.out = "yellow"
          /\ ret.arg[1] > 80 * Scale => ret.out = "green"

----------------------------------------------------------------------------
(* Point glyphs and connectors                                             *)

\* the row the plot maps buffer sample i (0-based) of c to
RowOf(c, i) ==
    LET b == calculateBounds(c)
    IN valueToY(c.data.values[i + 1], b[1], b[2], calculateChartHeight(c))

\* the glyph of a sample on row y between neighbours on rows prevY and nextY
PeakValleyGlyph(y, prevY, nextY) ==
    IF y < prevY /\ y < nextY THEN "/"
    ELSE IF y > prevY /\ y > nextY THEN "\\"
    ELSE "o"

\* the 0-based buffer index of the sample drawn in column 0
FirstVisible(c) == Max2(0, Len(c.data.values) - (c.width - YAxisLabelWidth))

\* the number of columns that carry a sample
VisibleCount(c) == Min2(Len(c.data.values), c.width - YAxisLabelWidth)

\* the cell of column x on the row of the sample drawn there
SampleCell(c, out, x) == PlotCells(c, out)[RowOf(c, FirstVisible(c) + x) + 1][x + 1]

\* C24 as stated: a plotted sample that is not the newest gets "/" exactly
\* when it has a visible predecessor and a successor and its row is strictly
\* above both neighbours' rows, "\" exactly when it is strictly below both,
\* and "o" otherwise; the sample of the first visible column is an edge and
\* gets "o".
C24_Original ==
    (ret.op = "Chart.Render" /\ HasPlot(TheChart))
       => \A x \in 0..(VisibleCount(TheChart) - 1) :
             LET i == FirstVisible(TheChart) + x
             IN i < Len(TheChart.data.values) - 1
                   => SampleCell(TheChart, ret.out, x)
                         = IF x >= 1
                           THEN PeakValleyGlyph(RowOf(TheChart, i), RowOf(TheChart, i - 1),
                                                RowOf(TheChart, i + 1))
                           ELSE "o"

\* C24: a plotted sample that is not the newest gets "/" exactly when it has
\* a predecessor and a successor in the buffer and its row is strictly above
\* the rows both map to, "\" exactly when it is strictly below both, and "o"
\* otherwise (equal rows on either side give "o"); the neighbours compared
\* are the buffered samples before and after it, visible or not, so only the
\* oldest buffered sample is an edge.
C24_PeakValleySelection ==
    (ret.op = "Chart.Render" /\ HasPlot(TheChart))
       => \A x \in 0..(VisibleCount(TheChart) - 1) :
             LET i == FirstVisible(TheChart) + x
             IN i < Len(TheChart.data.values) - 1
                   => SampleCell(TheChart, ret.out, x)
                         = IF i >= 1
                           THEN PeakValleyGlyph(RowOf(TheChart, i), RowOf(TheChart, i - 1),
                                                RowOf(TheChart, i + 1))
                           ELSE "o"

\* a render whose window has slid and whose first column shows a peak or a
\* valley against the off-screen sample before it
C24_Witness ==
    /\ ret.op = "Chart.Render"
    /\ HasPlot(TheChart)
    /\ FirstVisible(TheChart) >= 1
    /\ VisibleCount(TheChart) >= 2
    /\ SampleCell(TheChart, ret.out, 0) \in {"/", "\\"}

\* the rows strictly between rows r1 and r2
RowsBetween(r1, r2) == {y \in (Min2(r1, r2) + 1)..(Max2(r1, r2) - 1) : TRUE}

\* C25: Connector fill: for every pair of consecutive visible samples with
\* mapped rows r1 (earlier) and r2 (later, drawn in column x), every row
\* strictly between r1 and r2 in column x holds the connector glyph and no
\* other cell of column x does (the first visible column holds none); the
\* cell of the sample holds its point glyph, not a connector, and is the one
\* point glyph of its column.
C25_ConnectorFill ==
    (ret.op = "Chart.Render" /\ HasPlot(TheChart))
       => \A x \in 0..(VisibleCount(TheChart) - 1) :
             LET i == FirstVisible(TheChart) + x
                 grid == PlotCells(TheChart, ret.out)
                 rows == calculateChartHeight(TheChart)
                 between == IF x = 0 THEN {}
                            ELSE RowsBetween(RowOf(TheChart, i - 1), RowOf(TheChart, i))
             IN /\ {y \in 0..(rows - 1) : grid[y + 1][x + 1] = BoxVertical} = between
                /\ {y \in 0..(rows - 1) : grid[y + 1][x + 1] \in PointGlyphs}
                      = {RowOf(TheChart, i)}
                /\ \A y \in 0..(rows - 1) :
                      (y \notin between /\ y # RowOf(TheChart, i)) => grid[y + 1][x + 1] = " "

\* a render of two consecutive visible samples two or more rows apart: the
\* later column holds a connector
C25_Witness ==
    /\ ret.op = "Chart.Render"
    /\ HasPlot(TheChart)
    /\ VisibleCount(TheChart) >= 2
    /\ RowsBetween(RowOf(TheChart, FirstVisible(TheChart)),
                   RowOf(TheChart, FirstVisible(TheChart) + 1)) # {}
    /\ \E y \in 0..(calculateChartHeight(TheChart) - 1) :
          PlotCells(TheChart, ret.out)[y + 1][2] = BoxVertical

\* C26: Row mapping is in range and order-preserving: for every value, every
\* bounds pair (values outside the bounds and max <= min included) and every
\* plot height h >= 1, valueToY returns a row in [0, h-1]; and when
\* max > min, a value at least as large as another maps to a row at most as
\* large, max maps to row 0 and min to row h-1.
C26_RowMapping ==
    ret.op = "Chart.valueToY"
       => LET value == ret.arg[1]
              min == ret.arg[2]
              max == ret.arg[3]
              h == ret.arg[4]
          IN /\ ret.out \in 0..(h - 1)
             /\ max > min
                   => /\ \A v2 \in RowValues \cup {min, max} :
                            /\ value >= v2 => ret.out <= valueToY(v2, min, max, h)
                            /\ value <= v2 => ret.out >= valueToY(v2, min, max, h)
                      /\ value = max => ret.out = 0
                      /\ value = min => ret.out = h - 1

\* a value above the upper bound of an ordered bounds pair was mapped to the
\* top row of a plot of three or more rows, and a value under the lower bound
\* maps to the bottom row of that plot
C26_Witness ==
    /\ ret.op = "Chart.valueToY"
    /\ ret.arg[3] > ret.arg[2]
    /\ ret.arg[1] > ret.arg[3]
    /\ ret.arg[4] >= 3
    /\ ret.out = 0
    /\ valueToY(-2 * Scale, ret.arg[2], ret.arg[3], ret.arg[4]) = ret.arg[4] - 1

----------------------------------------------------------------------------
(* The battery manager, one call at a time: Update with whatever the        *)
(* battery library reports, then GetAll, Get and Count.  Here proc holds    *)
(* the manager and hist lists what the library reported to each Update.     *)

\* Manager.Get: [err, batteries] with the one Info found
ManagerGet(m, index) ==
    IF m.lastError THEN [err |-> TRUE, batteries |-> <<>>]
    ELSE IF index < 0 \/ index >= Len(m.batteries) THEN [err |-> TRUE, batteries |-> <<>>]
    ELSE [err |-> FALSE, batteries |-> <<m.batteries[index + 1]>>]

\* the batteries the library reports: the state by its name, the charge rate
\* with either sign or zero
Reported(state, rate) ==
    [State |-> state, Voltage |-> 12 * Scale, ChargeRate |-> rate, Current |-> 30,
     Full |-> 60]

ManagerReads ==
    {[err |-> TRUE, batteries |-> <<>>],
     [err |-> FALSE, batteries |-> <<>>],
     [err |-> FALSE, batteries |-> <<Reported("Discharging", 15000 * Scale)>>],
     [err |-> FALSE, batteries |-> <<Reported("Discharging", -15000 * Scale)>>],
     [err |-> FALSE, batteries |-> <<Reported("Discharging", 0),
                                     Reported("Charging", 20000 * Scale)>>],
     [err |-> FALSE, batteries |-> <<Reported("Charging", -20000 * Scale),
                                     Reported("Discharging", 5 * Scale),
                                     Reported("Full", 10 * Scale)>>],
     [err |-> FALSE, batteries |-> <<Reported("Not charging", 30 * Scale),
                                     Reported("Idle", -30 * Scale)>>],
     [err |-> FALSE, batteries |-> <<Reported("Empty", 40 * Scale)>>]}

\* the most Update calls
MaxManagerUpdates == 3

InitManager ==
    /\ proc = [manager |-> NewManager]
    /\ hist = <<>>
    /\ cs = <<>>
    /\ now = StartTime
    /\ ret = [op |-> "none", out |-> <<>>, err |-> FALSE, index |-> 0, len |-> 0]

\* m.Update() with battery.GetAll() returning `read`
CallUpdate(read) ==
    /\ Len(hist) < MaxManagerUpdates
    /\ proc' = [proc EXCEPT !.manager = ManagerUpdate(@, read)]
    /\ hist' = Append(hist, read)
    /\ ret' = [op |-> "Update", out |-> <<>>,
               err |-> (read.err \/ Len(read.batteries) = 0), index |-> 0, len |-> 0]
    /\ UNCHANGED <<cs, now>>

\* m.GetAll()
CallGetAll ==
    /\ ret' = [op |-> "GetAll", out |-> ManagerGetAll(proc.manager).batteries,
               err |-> ManagerGetAll(proc.manager).err, index |-> 0, len |-> 0]
    /\ UNCHANGED <<cs, now, hist, proc>>

\* m.Get(index)
CallGet(index) ==
    /\ ret' = [op |-> "Get", out |-> ManagerGet(proc.manager, index).batteries,
               err |-> ManagerGet(proc.manager, index).err, index |-> index, len |-> 0]
    /\ UNCHANGED <<cs, now, hist, proc>>

\* m.Count()
CallCount ==
    /\ ret' = [op |-> "Count", out |-> <<>>, err |-> FALSE, index |-> 0,
               len |-> Len(proc.manager.batteries)]
    /\ UNCHANGED <<cs, now, hist, proc>>

NextManager ==
    \/ \E read \in ManagerReads : CallUpdate(read)
    \/ CallGetAll
    \/ \E index \in GetIndexes : CallGet(index)
    \/ CallCount

SpecManager == InitManager /\ [][NextManager]_vars

\* an Update to which the library reported `read` fails
FailedRead(read) == read.err \/ Len(read.batteries) = 0

\* the Update calls so far that succeeded, as indexes of hist
Succeeded == {k \in 1..Len(hist) : ~FailedRead(hist[k])}

\* the latest Update call failed
LatestFailed == Len(hist) > 0 /\ FailedRead(hist[Len(hist)])

\* what the library reported to the latest successful Update (nothing
\* before the first)
LatestReported ==
    IF Succeeded = {} THEN <<>>
    ELSE hist[CHOOSE k \in Succeeded : \A j \in Succeeded : j <= k].batteries

\* the stored Info agrees with the report `b` of the library for battery
\* `index` in everything but the sign of the charge rate
SameBattery(info, b, index) ==
    /\ info.Index = index
    /\ info.Voltage = b.Voltage /\ info.Current = b.Current /\ info.Full = b.Full
    /\ Abs(info.ChargeRate) = Abs(b.ChargeRate)

\* C27: Manager error state: once an Update has failed (read error or no
\* battery), GetAll and Get return an error until the next successful Update
\* while the battery list stays that of the latest successful Update and
\* Count returns its length; after a successful Update GetAll succeeds with
\* the new list and Get(i) fails only for i outside [0, Count()).
C27_ManagerErrorState ==
    /\ Len(proc.manager.batteries) = Len(LatestReported)
    /\ \A i \in 1..Len(LatestReported) :
          SameBattery(proc.manager.batteries[i], LatestReported[i], i - 1)
    /\ ret.op = "Update" => ret.err = LatestFailed
    /\ ret.op = "Count" => ret.len = Len(LatestReported)
    /\ ret.op = "GetAll"
          => /\ ret.err = LatestFailed
             /\ ~ret.err => ret.out = proc.manager.batteries
    /\ ret.op = "Get"
          => /\ ret.err = (LatestFailed \/ ret.index < 0
                              \/ ret.index >= Len(proc.manager.batteries))
             /\ ~ret.err => ret.out = <<proc.manager.batteries[ret.index + 1]>>

\* a Get inside the range of the list failed because the latest Update
\* failed after an earlier one had stored two or more batteries
C27_Witness ==
    /\ ret.op = "Get" /\ ret.err /\ ret.index = 1
    /\ LatestFailed
    /\ Len(LatestReported) >= 2
    /\ Len(proc.manager.batteries) >= 2

\* the Info values the last GetAll or Get returned, each with its index in
\* the stored list
Returned ==
    IF ret.op = "GetAll" /\ ~ret.err THEN {<<ret.out[i], i>> : i \in 1..Len(ret.out)}
    ELSE IF ret.op = "Get" /\ ~ret.err THEN {<<ret.out[1], ret.index + 1>>}
    ELSE {}

\* an Info in state Discharging has a charge rate of at most zero; in any
\* other state it has the charge rate `rate` the library reported
RateSigned(info, rate) ==
    IF info.State = "StateDischarging" THEN info.ChargeRate <= 0
    ELSE info.ChargeRate = rate

----------------------------------------------------------------------------
(* Chart set sizes over sequences of calls                                 *)

\* every member chart has the set's width and the set's height divided by
\* the number of charts
EvenlySized(set) ==
    \A i \in 1..Len(set.charts) :
       /\ set.charts[i].width = set.width
       /\ set.charts[i].height = TruncQuot(set.height, Len(set.charts))

\* C28 as stated: once SetSize has been called (the set has a width or a
\* height, which only SetSize gives it), in every state every member chart
\* has the set's width and the set's height div the current chart count,
\* charts added after the last SetSize included.
C28_Original == (cs.width # 0 \/ cs.height # 0) => EvenlySized(cs)

\* C28: the members have the set's width and the set's height div the chart
\* count right after every SetSize and from then on until the next AddChart;
\* AddChart resizes nothing: the chart added keeps the size it came with and
\* the charts already in the set keep theirs, until the next SetSize.
C28_SizeInvariant ==
    [][/\ ret'.op = "ChartSet.SetSize" => EvenlySized(cs')
       /\ (EvenlySized(cs) /\ ret'.op # "ChartSet.AddChart") => EvenlySized(cs')
       /\ ret'.op = "ChartSet.AddChart"
             => /\ Len(cs'.charts) = Len(cs.charts) + 1
                /\ SubSeq(cs'.charts, 1, Len(cs.charts)) = cs.charts
                /\ cs'.charts[Len(cs'.charts)].width = 0
                /\ cs'.charts[Len(cs'.charts)].height = 0
                /\ cs'.width = cs.width /\ cs'.height = cs.height]_vars

\* a chart added after SetSize(100, 30) on two charts: the two keep height
\* 15 and the third has no size while the set is 100 x 30
C28_Witness ==
    /\ ret.op = "ChartSet.AddChart"
    /\ Len(cs.charts) = 3
    /\ cs.width = 100 /\ cs.height = 30
    /\ cs.charts[1].height = 15 /\ cs.charts[2].height = 15
    /\ cs.charts[3].width = 0 /\ cs.charts[3].height = 0

----------------------------------------------------------------------------
(* The height of a rendered block                                          *)

\* the number of lines of a rendered block
LineCount(out) == Len(SplitLines(out))

\* the number of lines Chart.Render gives a chart of width >= 11 and height
\* h >= 1: the title, the plot rows (h - 4, at least 3 with data and at
\* least 2 without), the x-axis and the time labels
ChartLines(c) ==
    IF Len(c.data.values) > 0 THEN Max2(c.height - 1, 6) ELSE Max2(c.height - 1, 5)

\* the member charts have the size the last SetSize gave them, and Render
\* draws each of them
SetDrawn(set) ==
    /\ Len(set.charts) >= 1
    /\ EvenlySized(set)
    /\ set.width >= YAxisLabelWidth
    /\ TruncQuot(set.height, Len(set.charts)) >= 1

\* C29 as stated: for every width >= 11 and height >= 1, after
\* ChartSet.SetSize(w, h) with n >= 1 charts the block returned by
\* ChartSet.Render has at most h lines, and the block of every member chart
\* has at most as many lines as the chart's height.
C29_Original ==
    (ret.op = "ChartSet.Render" /\ SetDrawn(cs))
       => /\ LineCount(ret.out) <= cs.height
          /\ \A i \in 1..Len(cs.charts) :
                LineCount(ChartRender(cs.charts[i])) <= cs.charts[i].height

\* C29: for every width >= 11 and height >= 1 the block returned by
\* Chart.Render has max(height - 1, 6) lines for a chart with data and
\* max(height - 1, 5) lines for an empty one, which is at most `height` for
\* every height >= 6; after ChartSet.SetSize(w, h) with n >= 1 charts that
\* get a height h div n >= 6 each, the block returned by ChartSet.Render has
\* at most h lines.
C29_RenderHeight ==
    (ret.op = "ChartSet.Render" /\ SetDrawn(cs))
       => /\ \A i \in 1..Len(cs.charts) :
                /\ LineCount(ChartRender(cs.charts[i])) = ChartLines(cs.charts[i])
                /\ cs.charts[i].height >= 6 => ChartLines(cs.charts[i]) <= cs.charts[i].height
          /\ TruncQuot(cs.height, Len(cs.charts)) >= 6 => LineCount(ret.out) <= cs.height

\* three charts sized to 13 x 15, five rows each, two of them with data: the
\* rendered block is taller than the set
C29_Witness ==
    /\ ret.op = "ChartSet.Render"
    /\ SetDrawn(cs)
    /\ Len(cs.charts) = 3
    /\ cs.height = 15
    /\ Len(cs.charts[1].data.values) > 0
    /\ Len(cs.charts[2].data.values) > 0
    /\ Len(cs.charts[3].data.values) = 0
    /\ LineCount(ret.out) = 17

====
